---------------------------- MODULE Spec2Model ----------------------------
(***************************************************************************)
(* A model of the CryptoSensei analysis engine:                            *)
(*   - strategyGenerator (src/src/services/strategy/strategyGenerator.ts)  *)
(*   - AnalysisService, both variants (src/src/services/analysis.ts)       *)
(*   - the price server and its WebSocket (same file as strategyGenerator) *)
(*   - the MarketAnalysis component (src/unnamed/part_004)                 *)
(*                                                                         *)
(* Units.  JavaScript numbers are modelled by scaled integers:             *)
(*   money        cents                                                    *)
(*   strengths    hundredths (0..100 for 0.00..1.00)                       *)
(*   RSI and the strategy confidence   thousandths ("milli")               *)
(*   volatility   whole percent                                            *)
(* and, where the code divides, by exact rationals [n, d] together with    *)
(* the IEEE specials NaN and +Infinity.                                    *)
(***************************************************************************)
EXTENDS Integers, Sequences, FiniteSets, TLC

VARIABLES
    sgData,      \* the argument of the current generateStrategy call
    sgOutcome,   \* how the promise returned by generateStrategy settled
    call,        \* the arguments of the current call of a pure function
    ret,         \* its return value
    req,         \* the analysis requests: position, fetched inputs, result
    fetchLog,    \* the upstream fetches started so far, in order
    server,      \* the HTTP server: clock, rate-limit timestamp, cache, handlers
    socket,      \* one WebSocket connection: its timers and its handlers
    component    \* the MarketAnalysis component: props, state, pending fetches

vars == <<sgData, sgOutcome, call, ret, req, fetchLog, server, socket, component>>

----------------------------------------------------------------------------
(* Integer helpers *)

Min(a, b) == IF a <= b THEN a ELSE b
Max(a, b) == IF a >= b THEN a ELSE b
Abs(a) == IF a < 0 THEN -a ELSE a

\* n/d rounded to the nearest integer, halves up (toFixed / Math.round on
\* non-negative values)
RoundDiv(n, d) == (2 * n + d) \div (2 * d)

----------------------------------------------------------------------------
(* Strings: a string is the sequence of its words; toLowerCase and         *)
(* includes are computed on the words.                                     *)

Words == {"Bull", "Bear", "Market", "Accumulation", "Distribution", "Correction",
          "Bullish", "Bearish", "Neutral", "Strong", "crossover", "momentum",
          "bull", "bear", "market", "accumulation", "distribution", "correction",
          "bullish", "bearish", "neutral", "strong"}

LowerWord(w) ==
    CASE w = "Bull" -> "bull"
      [] w = "Bear" -> "bear"
      [] w = "Market" -> "market"
      [] w = "Accumulation" -> "accumulation"
      [] w = "Distribution" -> "distribution"
      [] w = "Correction" -> "correction"
      [] w = "Bullish" -> "bullish"
      [] w = "Bearish" -> "bearish"
      [] w = "Neutral" -> "neutral"
      [] w = "Strong" -> "strong"
      [] OTHER -> w

toLowerCase(s) == [i \in 1..Len(s) |-> LowerWord(s[i])]

includes(s, w) == \E i \in 1..Len(s) : s[i] = w


----------------------------------------------------------------------------
(* strategyGenerator                                                       *)

\* A JavaScript number argument: a finite number of cents, NaN, or undefined
Num(c) == [kind |-> "num", v |-> c]
NaNPrice == [kind |-> "NaN", v |-> 0]
UndefinedPrice == [kind |-> "undefined", v |-> 0]

\* `!currentPrice || isNaN(currentPrice)`
InvalidPrice(p) == p.kind # "num" \/ p.v = 0

\* A template literal `${recommendation} (${confidence}%)` and a plain label
\* (the text appended after the label is kept as a sequence of its parts)
Plain(label) == [label |-> label, suffix |-> <<>>]
Template(label, confidence) == [label |-> label, suffix |-> <<confidence>>]

stopMultipliers(type) ==
    CASE type = "tight" -> 2 [] type = "normal" -> 3 [] type = "wide" -> 5

baseMultipliers(type) ==
    CASE type = "primary" -> 3 [] type = "secondary" -> 5 [] type = "final" -> 8

\* `marketCondition.strength || 0.5`, in hundredths
StrengthOrHalf(marketCondition) ==
    IF marketCondition.strength = 0 THEN 50 ELSE marketCondition.strength

\* the distance as a fraction, in ten-thousandths
calculateStopLossDistance(marketCondition, type) ==
    StrengthOrHalf(marketCondition) * stopMultipliers(type)

\* the trend multiplier in halves: 1.5, 0.5, 1
trendMultiplier2(marketCondition) ==
    LET trend == toLowerCase(marketCondition.phase)
    IN  IF trend = <<"bull", "market">> THEN 3
        ELSE IF trend = <<"bear", "market">> THEN 1 ELSE 2

\* the distance as a fraction, in twenty-thousandths
calculateTargetDistance(marketCondition, type) ==
    baseMultipliers(type) * StrengthOrHalf(marketCondition)
        * trendMultiplier2(marketCondition)

\* the strategy's calculateConfidence, in milli
sgCalculateConfidence(technicalSignals, marketCondition) ==
    LET trendStrength == technicalSignals.trend.strength
        marketStrength == marketCondition.strength
        momentumStrength ==
            (IF technicalSignals.momentum.rsi.value > 50000 THEN 60 ELSE 40)
            + (IF technicalSignals.momentum.macd.value > 0 THEN 10 ELSE -10)
    IN  Min(95000, Max(30000,
            400 * trendStrength + 300 * marketStrength + 300 * momentumStrength))

\* Math.round of a non-negative milli value, in milli
RoundMilli(m) == RoundDiv(m, 1000) * 1000

\* a cut to two decimals instead of a rounding
Truncate2Milli(m) == (m \div 10) * 10

\* Math.round(x * 100) / 100 of a non-negative milli value, in milli
Round2Milli(m) == RoundDiv(m, 10) * 10

\* RuleTaken with the rules evaluated independently, the later match
\* winning: an oversold bearish input ends in rule 4 (Sell)
RuleTakenLastMatch(rsiValue, trend, macdSignal, marketPhase) ==
    IF includes(marketPhase, "distribution") THEN 6
    ELSE IF includes(marketPhase, "accumulation") THEN 5
    ELSE IF includes(trend, "bearish")
            /\ (includes(macdSignal, "bearish") \/ rsiValue < 45000) THEN 4
    ELSE IF includes(trend, "bullish")
            /\ (includes(macdSignal, "bullish") \/ rsiValue > 55000) THEN 3
    ELSE IF rsiValue < 30000 /\ includes(trend, "bearish") THEN 2
    ELSE IF rsiValue > 70000 /\ includes(trend, "bullish") THEN 1
    ELSE 0

\* the branch of the if / else-if chain that is taken (0: none, Hold)
RuleTaken(rsiValue, trend, macdSignal, marketPhase) ==
    IF rsiValue > 70000 /\ includes(trend, "bullish") THEN 1
    ELSE IF rsiValue < 30000 /\ includes(trend, "bearish") THEN 2
    ELSE IF includes(trend, "bullish")
            /\ (includes(macdSignal, "bullish") \/ rsiValue > 55000) THEN 3
    ELSE IF includes(trend, "bearish")
            /\ (includes(macdSignal, "bearish") \/ rsiValue < 45000) THEN 4
    ELSE IF includes(marketPhase, "accumulation") THEN 5
    ELSE IF includes(marketPhase, "distribution") THEN 6
    ELSE 0

\* a bonus given whenever the MACD text has a direction, whatever the label
macdBonusAnyLabel(macdSignal, recommendation) ==
    IF includes(macdSignal, "bullish") \/ includes(macdSignal, "bearish")
    THEN 8000 ELSE 0

\* `confidence += 8` when the MACD text agrees with a Buy or a Sell
macdBonus(macdSignal, recommendation) ==
    IF includes(macdSignal, "bullish") /\ recommendation = "Buy" THEN 8000
    ELSE IF includes(macdSignal, "bearish") /\ recommendation = "Sell" THEN 8000
    ELSE 0

determineRecommendation(technicalSignals, marketCondition) ==
    LET rsiValue == technicalSignals.momentum.rsi.value
        trend == toLowerCase(technicalSignals.trend.primary)
        marketPhase == toLowerCase(marketCondition.phase)
        macdSignal == toLowerCase(technicalSignals.momentum.macd.signal)
        baseConfidence ==
            RoundMilli(sgCalculateConfidence(technicalSignals, marketCondition))
        confidence0 == Min(95000, Max(35000, baseConfidence))
        rule == RuleTaken(rsiValue, trend, macdSignal, marketPhase)
        recommendation ==
            CASE rule = 1 -> "Take Profit"
              [] rule = 2 -> "Buy"
              [] rule = 3 -> "Buy"
              [] rule = 4 -> "Sell"
              [] rule = 5 -> "Buy"
              [] rule = 6 -> "Sell"
              [] OTHER -> "Hold"
        confidence1 ==
            CASE rule = 1 -> Max(confidence0, Min(90000, rsiValue))
              [] rule = 2 -> Max(confidence0, Min(90000, 100000 - rsiValue))
              [] rule = 3 -> Max(confidence0, 65000)
              [] rule = 4 -> Max(confidence0, 65000)
              [] rule = 5 -> Max(confidence0, 60000)
              [] rule = 6 -> Max(confidence0, 60000)
              [] OTHER -> confidence0
        confidence2 == confidence1 + macdBonus(macdSignal, recommendation)
    IN  [recommendation |-> recommendation,
         confidence |-> Min(95000, Round2Milli(confidence2))]

\* entry prices are computed in hundredths of a cent (price in cents * 100)
calculateConservativeEntry(currentPrice, technicalSignals, keyLevels) ==
    LET support == IF keyLevels.support # 0 THEN keyLevels.support * 100
                   ELSE currentPrice * 95
        volatility == technicalSignals.volatility.current
    IN  Max(support, currentPrice * (100 - Min(5, volatility)))

calculateAggressiveEntry(currentPrice, technicalSignals, keyLevels) ==
    LET resistance == IF keyLevels.resistance # 0 THEN keyLevels.resistance * 100
                      ELSE currentPrice * 105
        volatility == technicalSignals.volatility.current
        entryPoint == currentPrice * (100 + Min(3, volatility))
    IN  Min(entryPoint, resistance)

determineTimeframe(technicalSignals, marketCondition) ==
    LET volatility == technicalSignals.volatility.current
        marketPhase == toLowerCase(marketCondition.phase)
        strength == StrengthOrHalf(marketCondition)
    IN  IF marketPhase = <<"bull", "market">> /\ strength > 70
        THEN (IF volatility > 50 THEN "Short-term" ELSE "Medium-term")
        ELSE IF marketPhase = <<"bear", "market">> /\ strength > 70
        THEN "Long-term"
        ELSE IF marketPhase = <<"accumulation">> THEN "Medium-term"
        ELSE IF marketPhase = <<"distribution">> THEN "Short-term"
        ELSE IF volatility > 50 THEN "Short-term"
        ELSE IF volatility < 20 THEN "Long-term" ELSE "Medium-term"

\* the rationale lines, each named by what it reports
generateRationale(technicalSignals, marketCondition, hasKeyLevels) ==
    <<"Market Phase", "RSI", "MACD">>
    \o (IF hasKeyLevels THEN <<"Support", "Resistance">> ELSE <<>>)
    \o (IF technicalSignals.trend.strength > 70 THEN <<"Strong trend">> ELSE <<>>)

defaultPrice == 7600000

getDefaultStrategy ==
    [recommendation |-> Plain("Hold"),
     confidence |-> 50000,
     entries |-> [conservative |-> (defaultPrice * 98) \div 100,
                  moderate |-> defaultPrice,
                  aggressive |-> (defaultPrice * 102) \div 100],
     stopLoss |-> [tight |-> (defaultPrice * 95) \div 100,
                   normal |-> (defaultPrice * 97) \div 100,
                   wide |-> (defaultPrice * 93) \div 100],
     targets |-> [primary |-> (defaultPrice * 103) \div 100,
                  secondary |-> (defaultPrice * 105) \div 100,
                  final |-> (defaultPrice * 108) \div 100],
     timeframe |-> "Medium-term",
     rationale |-> <<"Using default strategy due to insufficient data">>]

\* The first property access of the try block that throws a TypeError on
\* data whose fields `missing` are undefined ("" when none throws)
TypeErrorAt(missing) ==
    IF "marketCondition" \in missing THEN "marketCondition.keyLevels"
    ELSE IF "keyLevels" \in missing THEN "keyLevels.support"
    ELSE IF "technicalSignals" \in missing THEN "technicalSignals.volatility"
    ELSE IF "volatility" \in missing THEN "volatility.current"
    ELSE IF "momentum" \in missing THEN "technicalSignals.momentum"
    ELSE IF "trend" \in missing THEN "trend.primary"
    ELSE IF "rsi" \in missing THEN "rsi.value"
    ELSE IF "macd" \in missing THEN "macd.value"
    ELSE IF "phase" \in missing THEN "phase.toLowerCase"
    ELSE IF "support" \in missing THEN "support.toFixed"
    ELSE IF "resistance" \in missing THEN "resistance.toFixed"
    ELSE ""

Returns(strategy) == [kind |-> "return", strategy |-> strategy]
Throws(error) == [kind |-> "throw", error |-> error]

\* the body of generateStrategy's try block
tryBlock(data) ==
    LET currentPrice == data.currentPrice.v
        marketCondition == data.marketCondition
        technicalSignals == data.technicalSignals
        conservative == calculateConservativeEntry(
            currentPrice, technicalSignals, marketCondition.keyLevels)
        aggressive == calculateAggressiveEntry(
            currentPrice, technicalSignals, marketCondition.keyLevels)
        aggressive2 == RoundDiv(aggressive, 100)
        rc == determineRecommendation(technicalSignals, marketCondition)
        stop(type) == RoundDiv(
            currentPrice * (10000 - calculateStopLossDistance(marketCondition, type)),
            10000)
        target(type) == RoundDiv(
            currentPrice * (20000 + calculateTargetDistance(marketCondition, type)),
            20000)
    IN  IF InvalidPrice(data.currentPrice) THEN Throws("Invalid current price")
        ELSE IF TypeErrorAt(data.missing) # "" THEN Throws(TypeErrorAt(data.missing))
        ELSE Returns(
            [recommendation |-> Template(rc.recommendation, rc.confidence),
             confidence |-> rc.confidence,
             entries |-> [conservative |-> RoundDiv(conservative, 100),
                          moderate |-> currentPrice,
                          aggressive |-> IF aggressive2 = 0
                                         THEN RoundDiv(currentPrice * 102, 100)
                                         ELSE aggressive2],
             stopLoss |-> [tight |-> stop("tight"),
                           normal |-> stop("normal"),
                           wide |-> stop("wide")],
             targets |-> [primary |-> target("primary"),
                          secondary |-> target("secondary"),
                          final |-> target("final")],
             timeframe |-> determineTimeframe(technicalSignals, marketCondition),
             rationale |-> generateRationale(technicalSignals, marketCondition, TRUE)])

Resolved(strategy) == [kind |-> "resolved", strategy |-> strategy]
Rejected(error) == [kind |-> "rejected", error |-> error]
Pending == [kind |-> "pending"]

\* a catch clause that lets the error escape: the promise rejects
generateStrategyRethrow(data) ==
    LET r == tryBlock(data)
    IN  IF r.kind = "throw" THEN Rejected(r.error) ELSE Resolved(r.strategy)

\* generateStrategy: try { ... } catch { return this.getDefaultStrategy() }
generateStrategy(data) ==
    LET r == tryBlock(data)
    IN  IF r.kind = "throw" THEN Resolved(getDefaultStrategy)
        ELSE Resolved(r.strategy)

----------------------------------------------------------------------------
(* The calls of generateStrategy that are explored *)

PriceArgs == {UndefinedPrice, NaNPrice, Num(0), Num(10000), Num(25050)}

PhaseArgs == {<<"Bull", "Market">>, <<"Bear", "Market">>, <<"Accumulation">>,
              <<"Distribution">>, <<"Correction">>}

KeyLevelArgs == {[support |-> 9500, resistance |-> 10200],
                 [support |-> 0, resistance |-> 0]}

MarketConditionArgs ==
    [phase : PhaseArgs, strength : {0, 50, 80}, keyLevels : KeyLevelArgs]

MacdArgs == {[value |-> 1, signal |-> <<"Bullish", "crossover">>],
             [value |-> -1, signal |-> <<"bearish", "crossover">>],
             [value |-> 1, signal |-> <<"neutral">>],
             [value |-> -1, signal |-> <<"Neutral">>]}

RsiArgs == {25000, 44000, 50000, 56000, 72344, 72345, 93456}

TechnicalSignalsArgs ==
    [trend : [primary : {<<"bullish">>, <<"Bearish">>, <<"neutral">>},
              strength : {30, 80}],
     momentum : [rsi : [value : RsiArgs], macd : MacdArgs],
     volatility : [current : {2, 30, 60}]]

\* the fields of the argument that may be undefined, one at a time
MissingArgs == {{}, {"keyLevels"}, {"momentum"}, {"phase"}, {"support"}}

StrategyData ==
    [currentPrice : PriceArgs,
     marketCondition : MarketConditionArgs,
     technicalSignals : TechnicalSignalsArgs,
     missing : MissingArgs]

(* The values of the variables a specification does not use *)
NoCall == [fn |-> "none"]
NoRet == [done |-> FALSE]
Returned(v) == [done |-> TRUE, value |-> v]
NoData == CHOOSE d \in StrategyData : TRUE

IdleStrategy == sgData = NoData /\ sgOutcome = Pending
IdleCall == call = NoCall /\ ret = NoRet
IdleAnalysis == req = <<>> /\ fetchLog = <<>>
IdleServer == server = <<>> /\ socket = <<>>
IdleComponent == component = <<>>

InitStrategy ==
    /\ IdleServer
    /\ IdleComponent
    /\ sgData \in StrategyData
    /\ sgOutcome = Pending
    /\ IdleCall
    /\ IdleAnalysis

\* the caller invokes generateStrategy(data); the function has no await, so
\* the promise it returns is settled by the call itself
GenerateStrategy ==
    /\ sgOutcome.kind = "pending"
    /\ sgOutcome' = generateStrategy(sgData)
    /\ UNCHANGED <<server, socket, component, sgData, call, ret, req, fetchLog>>

NextStrategy == GenerateStrategy

SpecStrategy == InitStrategy /\ [][NextStrategy]_vars

----------------------------------------------------------------------------
(* Claims about generateStrategy (checked under SpecStrategy) *)

Settled == sgOutcome.kind # "pending"
\* the try block ran to its return statement
Computed == Settled /\ tryBlock(sgData).kind = "return"

RecommendationEnum == {"Buy", "Sell", "Hold", "Take Profit"}

\* C1: a call with a current price that is 0, NaN or undefined ends in an
\* explicit failure: the promise rejects, it never resolves to a strategy.
C1_InvalidPriceRejects ==
    (Settled /\ InvalidPrice(sgData.currentPrice)) => sgOutcome.kind = "rejected"

\* C2: with a valid current price the call never rejects, and an exception
\* raised in the try block (a missing keyLevels, momentum, phase, support)
\* resolves to the fixed default strategy: Hold, confidence 50, Medium-term,
\* levels derived from 76000 and not from the input price.
C2_ValidPriceNeverRejects ==
    (Settled /\ ~InvalidPrice(sgData.currentPrice)) =>
        /\ sgOutcome.kind = "resolved"
        /\ sgData.missing # {} =>
            /\ sgOutcome.strategy.recommendation = Plain("Hold")
            /\ sgOutcome.strategy.confidence = 50000
            /\ sgOutcome.strategy.timeframe = "Medium-term"
            /\ sgOutcome.strategy.entries =
                 [conservative |-> 7448000, moderate |-> 7600000,
                  aggressive |-> 7752000]
            /\ sgOutcome.strategy.stopLoss =
                 [tight |-> 7220000, normal |-> 7372000, wide |-> 7068000]
            /\ sgOutcome.strategy.targets =
                 [primary |-> 7828000, secondary |-> 7980000, final |-> 8208000]

C2_Witness ==
    /\ Settled
    /\ sgData.currentPrice = Num(25050)
    /\ sgData.missing = {"momentum"}
    /\ sgOutcome.kind = "resolved"
    /\ sgOutcome.strategy.entries.moderate = 7600000

\* C3: determineRecommendation evaluates six rules in order and the first
\* match alone decides; Hold exactly when none matches; an oversold bearish
\* input (RSI < 30, bearish trend) yields Buy, never Sell.
C3_FirstMatchWins ==
    Computed =>
        LET rsi == sgData.technicalSignals.momentum.rsi.value
            bullish == includes(toLowerCase(sgData.technicalSignals.trend.primary), "bullish")
            bearish == includes(toLowerCase(sgData.technicalSignals.trend.primary), "bearish")
            macd == toLowerCase(sgData.technicalSignals.momentum.macd.signal)
            phase == toLowerCase(sgData.marketCondition.phase)
            r1 == rsi > 70000 /\ bullish
            r2 == rsi < 30000 /\ bearish
            r3 == bullish /\ (includes(macd, "bullish") \/ rsi > 55000)
            r4 == bearish /\ (includes(macd, "bearish") \/ rsi < 45000)
            r5 == includes(phase, "accumulation")
            r6 == includes(phase, "distribution")
            label == sgOutcome.strategy.recommendation.label
        IN  /\ r1 => label = "Take Profit"
            /\ (~r1 /\ r2) => label = "Buy"
            /\ (~r1 /\ ~r2 /\ r3) => label = "Buy"
            /\ (~r1 /\ ~r2 /\ ~r3 /\ r4) => label = "Sell"
            /\ (~r1 /\ ~r2 /\ ~r3 /\ ~r4 /\ r5) => label = "Buy"
            /\ (~r1 /\ ~r2 /\ ~r3 /\ ~r4 /\ ~r5 /\ r6) => label = "Sell"
            /\ label = "Hold" <=> ~(r1 \/ r2 \/ r3 \/ r4 \/ r5 \/ r6)

\* an oversold bearish input in a distribution phase: rules 2, 4 and 6 match
C3_Witness ==
    /\ Computed
    /\ sgData.technicalSignals.momentum.rsi.value < 30000
    /\ sgData.technicalSignals.trend.primary = <<"Bearish">>
    /\ sgData.marketCondition.phase = <<"Distribution">>
    /\ sgOutcome.strategy.recommendation.label = "Buy"

\* C4: in every strategy generateStrategy returns, recommendation is exactly
\* one of Buy, Sell, Hold, Take Profit and confidence lies within [0, 100].
C4_RecommendationIsEnum ==
    sgOutcome.kind = "resolved" =>
        /\ sgOutcome.strategy.recommendation \in
             {Plain(label) : label \in RecommendationEnum}
        /\ sgOutcome.strategy.confidence \in 0..100000

----------------------------------------------------------------------------
(* AnalysisService.determineMarketPhase (the two variants have the same    *)
(* text)                                                                   *)

\* the if / else-if chain on the three comparisons
\* (a variant that tests price > MA50 where the code tests its negation)
phaseOfCorrectionAboveMA50(priceAboveMA50, priceAboveMA200, ma50AboveMA200) ==
    IF priceAboveMA50 /\ priceAboveMA200 /\ ma50AboveMA200 THEN "Bull Market"
    ELSE IF ~priceAboveMA50 /\ ~priceAboveMA200 /\ ~ma50AboveMA200 THEN "Bear Market"
    ELSE IF priceAboveMA200 /\ priceAboveMA50 THEN "Correction"
    ELSE "Accumulation"

phaseOf(priceAboveMA50, priceAboveMA200, ma50AboveMA200) ==
    IF priceAboveMA50 /\ priceAboveMA200 /\ ma50AboveMA200 THEN "Bull Market"
    ELSE IF ~priceAboveMA50 /\ ~priceAboveMA200 /\ ~ma50AboveMA200 THEN "Bear Market"
    ELSE IF priceAboveMA200 /\ ~priceAboveMA50 THEN "Correction"
    ELSE "Accumulation"

determineMarketPhase(prices, ma50, ma200) ==
    LET currentPrice == prices[Len(prices)]
    IN  phaseOf(currentPrice > ma50, currentPrice > ma200, ma50 > ma200)

\* the largest price and moving average explored
MaxLevel == 5

PhaseCalls ==
    [fn : {"determineMarketPhase"},
     prices : {<<p>> : p \in 1..MaxLevel} \cup {<<p, q>> : p, q \in 1..MaxLevel},
     ma50 : 1..MaxLevel,
     ma200 : 1..MaxLevel]

InitPhase ==
    /\ IdleServer
    /\ IdleComponent
    /\ call \in PhaseCalls
    /\ ret = NoRet
    /\ IdleStrategy
    /\ IdleAnalysis

CallDetermineMarketPhase ==
    /\ call.fn = "determineMarketPhase"
    /\ ~ret.done
    /\ ret' = Returned(determineMarketPhase(call.prices, call.ma50, call.ma200))
    /\ UNCHANGED <<server, socket, component, call, sgData, sgOutcome, req, fetchLog>>

NextPhase == CallDetermineMarketPhase

SpecPhase == InitPhase /\ [][NextPhase]_vars

\* the truth assignments the if / else-if chain sends to each label
CombosOf(label) ==
    {t \in BOOLEAN \X BOOLEAN \X BOOLEAN : phaseOf(t[1], t[2], t[3]) = label}

\* the table of the claim, on the three comparisons of the current call
PhaseTableHolds ==
    LET cp == call.prices[Len(call.prices)]
        a == cp > call.ma50
        b == cp > call.ma200
        c == call.ma50 > call.ma200
    IN  /\ ret.value \in {"Bull Market", "Bear Market", "Correction", "Accumulation"}
        /\ ret.value = "Bull Market" <=> (a /\ b /\ c)
        /\ ret.value = "Bear Market" <=> (~a /\ ~b /\ ~c)
        /\ ret.value = "Correction" <=> (~a /\ b)
        /\ ret.value = "Accumulation" <=>
             ~((a /\ b /\ c) \/ (~a /\ ~b /\ ~c) \/ (~a /\ b))

PhaseChainTable ==
    /\ CombosOf("Bull Market") = {<<TRUE, TRUE, TRUE>>}
    /\ CombosOf("Bear Market") = {<<FALSE, FALSE, FALSE>>}
    /\ CombosOf("Correction") = {<<FALSE, TRUE, TRUE>>, <<FALSE, TRUE, FALSE>>}

\* C5 (as stated): determineMarketPhase is total over the 8 truth
\* assignments: (T,T,T) Bull Market, (F,F,F) Bear Market, (F,T,*) Correction,
\* and the remaining combinations, five of them, Accumulation.
C5_RemainingFive ==
    ret.done =>
        /\ PhaseTableHolds
        /\ PhaseChainTable
        /\ Cardinality(CombosOf("Accumulation")) = 5

\* C5 (amended): the same table, the remaining combinations being the four
\* (T,T,F), (T,F,T), (T,F,F), (F,F,T).
C5_RemainingFour ==
    ret.done =>
        /\ PhaseTableHolds
        /\ PhaseChainTable
        /\ CombosOf("Accumulation") =
             {<<TRUE, TRUE, FALSE>>, <<TRUE, FALSE, TRUE>>,
              <<TRUE, FALSE, FALSE>>, <<FALSE, FALSE, TRUE>>}

\* price above both averages with MA50 below MA200: Accumulation
C5_Witness ==
    /\ ret.done
    /\ call.prices = <<2, 5>> /\ call.ma50 = 3 /\ call.ma200 = 4
    /\ ret.value = "Accumulation"

----------------------------------------------------------------------------
(* JavaScript numbers as exact rationals, with NaN, +Infinity and          *)
(* undefined.  A finite number is [k |-> "fin", n, d] in lowest terms with *)
(* d > 0.                                                                  *)

RECURSIVE GCD(_, _)
GCD(a, b) == IF b = 0 THEN a ELSE GCD(b, a % b)

Fin(n, d) ==
    LET g == GCD(Abs(n), Abs(d))
        sgn == IF d < 0 THEN -1 ELSE 1
    IN  [k |-> "fin", n |-> sgn * (n \div g), d |-> sgn * (d \div g)]
Whole(n) == [k |-> "fin", n |-> n, d |-> 1]
NaN == [k |-> "nan", n |-> 0, d |-> 1]
Infinity == [k |-> "inf", n |-> 1, d |-> 1]
Undefined == [k |-> "undefined", n |-> 0, d |-> 1]

IsFin(x) == x.k = "fin"
\* NaN and undefined (which converts to NaN) poison arithmetic
IsNaN(x) == x.k \in {"nan", "undefined"}

\* x < y and x <= y; false when either is NaN
RLt(x, y) ==
    /\ ~IsNaN(x) /\ ~IsNaN(y)
    /\ IF x.k = "inf" THEN FALSE
       ELSE IF y.k = "inf" THEN TRUE
       ELSE x.n * y.d < y.n * x.d
RLe(x, y) ==
    /\ ~IsNaN(x) /\ ~IsNaN(y)
    /\ IF y.k = "inf" THEN TRUE
       ELSE IF x.k = "inf" THEN FALSE
       ELSE x.n * y.d <= y.n * x.d
RGt(x, y) == RLt(y, x)

\* Math.min and Math.max: NaN if either argument is NaN
MathMin(x, y) == IF IsNaN(x) \/ IsNaN(y) THEN NaN ELSE IF RLe(x, y) THEN x ELSE y
MathMax(x, y) == IF IsNaN(x) \/ IsNaN(y) THEN NaN ELSE IF RLe(y, x) THEN x ELSE y

MathAbs(x) == IF IsFin(x) THEN Fin(Abs(x.n), x.d) ELSE IF IsNaN(x) THEN NaN ELSE x

\* +, -, * and / on values that are finite, NaN or +Infinity
\* (Infinity - Infinity and 0 * Infinity do not arise: no subtrahend or
\* zero factor meets an infinite operand in the modelled code)
RAdd(x, y) ==
    IF IsNaN(x) \/ IsNaN(y) THEN NaN
    ELSE IF x.k = "inf" \/ y.k = "inf" THEN Infinity
    ELSE LET g == GCD(x.d, y.d)
         IN  Fin(x.n * (y.d \div g) + y.n * (x.d \div g), (x.d \div g) * y.d)
RSub(x, y) ==
    IF IsNaN(x) \/ IsNaN(y) THEN NaN
    ELSE IF y.k = "inf" THEN NaN
    ELSE IF x.k = "inf" THEN Infinity
    ELSE LET g == GCD(x.d, y.d)
         IN  Fin(x.n * (y.d \div g) - y.n * (x.d \div g), (x.d \div g) * y.d)
RMul(x, y) ==
    IF IsNaN(x) \/ IsNaN(y) THEN NaN
    ELSE IF x.k = "inf" \/ y.k = "inf"
    THEN (IF (IsFin(x) /\ x.n = 0) \/ (IsFin(y) /\ y.n = 0) THEN NaN ELSE Infinity)
    ELSE LET g == Max(1, GCD(Abs(x.n), y.d))
             h == Max(1, GCD(Abs(y.n), x.d))
         IN  Fin((x.n \div g) * (y.n \div h), (x.d \div h) * (y.d \div g))
\* x / y for x >= 0 and y >= 0 (the only divisions by a possible zero)
RDiv(x, y) ==
    IF IsNaN(x) \/ IsNaN(y) THEN NaN
    ELSE IF x.k = "inf" THEN (IF y.k = "inf" THEN NaN ELSE Infinity)
    ELSE IF y.k = "inf" THEN Whole(0)
    ELSE IF y.n = 0 THEN (IF x.n = 0 THEN NaN ELSE Infinity)
    ELSE LET g == Max(1, GCD(Abs(x.n), Abs(y.n)))
             h == GCD(x.d, y.d)
         IN  Fin((x.n \div g) * (y.d \div h), (x.d \div h) * (y.n \div g))

\* `x || dflt`: 0, NaN and undefined are falsy
OrElse(x, dflt) ==
    IF IsNaN(x) \/ (IsFin(x) /\ x.n = 0) THEN dflt ELSE x

----------------------------------------------------------------------------
(* AnalysisService.calculateConfidence, the confidence scorer              *)

rsiConfidenceOf(rsi) ==
    IF RGt(rsi, Whole(70)) \/ RLt(rsi, Whole(30)) THEN Whole(90)
    ELSE IF RGt(rsi, Whole(60)) \/ RLt(rsi, Whole(40)) THEN Whole(75)
    ELSE Whole(50)

volumeConfidenceOf(volumeRatio) ==
    IF RGt(volumeRatio, Whole(2)) THEN Whole(90)
    ELSE IF RGt(volumeRatio, Fin(3, 2)) THEN Whole(80)
    ELSE IF RGt(volumeRatio, Whole(1)) THEN Whole(70)
    ELSE IF RGt(volumeRatio, Fin(7, 10)) THEN Whole(50)
    ELSE Whole(30)

sentimentConfidenceOf(sentiment) ==
    LET newsScore == OrElse(sentiment.newsScore, Whole(50))
        socialScore == OrElse(sentiment.socialScore, Whole(50))
    IN  RDiv(RAdd(newsScore, socialScore), Whole(2))

volatilityFactorOf(volatilityIndex) ==
    MathMax(Fin(1, 2), RSub(Whole(1), RDiv(volatilityIndex, Whole(100))))

\* the weighted sum, times the volatility factor, clamped to [30, 95]
weightedConfidence(rsiConfidence, macdConfidence, volumeConfidence, sentimentConfidence, volatilityFactor) ==
    LET weighted ==
            RMul(RAdd(RAdd(RMul(rsiConfidence, Fin(25, 100)),
                           RMul(macdConfidence, Fin(25, 100))),
                      RAdd(RMul(volumeConfidence, Fin(20, 100)),
                           RMul(sentimentConfidence, Fin(20, 100)))),
                 volatilityFactor)
    IN  MathMin(Whole(95), MathMax(Whole(30), weighted))

\* first variant: the MACD denominator is max(0.01, |signal|)
calculateConfidence(rsi, macd, volumeRatio, sentiment, volatilityIndex) ==
    LET signalDenominator == MathMax(Fin(1, 100), MathAbs(macd.signal))
        signalStrength == RDiv(MathAbs(macd.histogram), signalDenominator)
        macdConfidence == MathMin(Whole(100), RMul(signalStrength, Whole(100)))
    IN  weightedConfidence(rsiConfidenceOf(rsi), macdConfidence,
                           volumeConfidenceOf(volumeRatio),
                           sentimentConfidenceOf(sentiment),
                           volatilityFactorOf(volatilityIndex))

\* second variant: the MACD denominator is |signal| itself
calculateConfidence2(rsi, macd, volumeRatio, sentiment, volatilityIndex) ==
    LET signalStrength == RDiv(MathAbs(macd.histogram), MathAbs(macd.signal))
        macdConfidence == MathMin(Whole(100), RMul(signalStrength, Whole(100)))
    IN  weightedConfidence(rsiConfidenceOf(rsi), macdConfidence,
                           volumeConfidenceOf(volumeRatio),
                           sentimentConfidenceOf(sentiment),
                           volatilityFactorOf(volatilityIndex))

RsiValues == {Whole(25), Whole(35), Whole(50), Whole(65), Whole(75)}
MacdValues ==
    [value : {Whole(0)},
     signal : {Whole(0), Fin(1, 200), Fin(-3, 2), Whole(4)},
     histogram : {Whole(0), Fin(1, 100), Fin(-1, 2), Whole(6)}]
VolumeRatios == {Fin(1, 2), Fin(7, 10), Whole(1), Fin(3, 2), Whole(2), Whole(3)}
ScoreValues == {Whole(0), Whole(40), Whole(100), Undefined}
VolatilityValues == {Whole(0), Whole(30), Whole(50), Whole(80), Whole(150)}

ConfidenceCalls ==
    [fn : {"calculateConfidence", "calculateConfidence2"},
     rsi : RsiValues,
     macd : MacdValues,
     volumeRatio : VolumeRatios,
     sentiment : [newsScore : ScoreValues, socialScore : ScoreValues],
     volatilityIndex : VolatilityValues]

InitConfidence ==
    /\ IdleServer
    /\ IdleComponent
    /\ call \in ConfidenceCalls
    /\ ret = NoRet
    /\ IdleStrategy
    /\ IdleAnalysis

CallCalculateConfidence ==
    /\ call.fn = "calculateConfidence"
    /\ ~ret.done
    /\ ret' = Returned(calculateConfidence(call.rsi, call.macd, call.volumeRatio,
                                           call.sentiment, call.volatilityIndex))
    /\ UNCHANGED <<server, socket, component, call, sgData, sgOutcome, req, fetchLog>>

CallCalculateConfidence2 ==
    /\ call.fn = "calculateConfidence2"
    /\ ~ret.done
    /\ ret' = Returned(calculateConfidence2(call.rsi, call.macd, call.volumeRatio,
                                            call.sentiment, call.volatilityIndex))
    /\ UNCHANGED <<server, socket, component, call, sgData, sgOutcome, req, fetchLog>>

NextConfidence == CallCalculateConfidence \/ CallCalculateConfidence2

SpecConfidence == InitConfidence /\ [][NextConfidence]_vars

\* C6: for every combination of finite inputs, macd.signal = 0 and
\* macd.histogram = 0 included, both implementations of the confidence
\* scorer return a value within [30, 95].
C6_ConfidenceWithinRange ==
    ret.done => (RLe(Whole(30), ret.value) /\ RLe(ret.value, Whole(95)))

\* the same for the first implementation alone
FirstScorerWithinRange ==
    (ret.done /\ call.fn = "calculateConfidence") =>
        (RLe(Whole(30), ret.value) /\ RLe(ret.value, Whole(95)))

----------------------------------------------------------------------------
(* Historical series.  A series is explored by its shape; the indicators   *)
(* that need log, sqrt or a long exponential recurrence (volatility, RSI   *)
(* and MACD of the whole series) are not computed in the model: each shape *)
(* carries the values the source's formulas give for it, rounded to two    *)
(* decimals.                                                               *)

\* the number of daily points of a series
SeriesLen == 60

Shapes == {"flat", "up", "down", "zig", "rally"}

Series(shape) ==
    CASE shape = "flat" -> [i \in 1..SeriesLen |-> 100]
      [] shape = "up" -> [i \in 1..SeriesLen |-> 100 + i]
      [] shape = "down" -> [i \in 1..SeriesLen |-> 200 - i]
      [] shape = "zig" -> [i \in 1..SeriesLen |-> 100 + 10 * (i % 2)]
      [] shape = "rally" ->
           [i \in 1..SeriesLen |-> IF i <= 50 THEN 100 ELSE 100 + 5 * (i - 50)]

\* calculateRSI(prices): 0/0 on a flat series
RsiOf(shape) ==
    CASE shape = "flat" -> NaN
      [] shape = "up" -> Whole(100)
      [] shape = "down" -> Whole(0)
      [] shape = "zig" -> Fin(4808, 100)
      [] shape = "rally" -> Whole(100)

\* the last EMA(12) - EMA(26)
MacdLineOf(shape) ==
    CASE shape = "flat" -> Whole(0)
      [] shape = "up" -> Fin(687, 100)
      [] shape = "down" -> Fin(-687, 100)
      [] shape = "zig" -> Fin(-28, 100)
      [] shape = "rally" -> Fin(1122, 100)

\* the last EMA(9) of the MACD series
MacdSignalOf(shape) ==
    CASE shape = "flat" -> Whole(0)
      [] shape = "up" -> Fin(680, 100)
      [] shape = "down" -> Fin(-680, 100)
      [] shape = "zig" -> Fin(-10, 100)
      [] shape = "rally" -> Fin(668, 100)

\* sqrt(mean of squared log returns) * sqrt(365)
AnnualizedVolOf(shape) ==
    CASE shape = "flat" -> Whole(0)
      [] shape = "up" -> Fin(15, 100)
      [] shape = "down" -> Fin(11, 100)
      [] shape = "zig" -> Fin(182, 100)
      [] shape = "rally" -> Fin(32, 100)

\* calculateVolatilityIndex: the same over the last 20 returns, in percent
VolatilityIndexOf(shape) ==
    CASE shape = "flat" -> Whole(0)
      [] shape = "up" -> Fin(1277, 100)
      [] shape = "down" -> Fin(1277, 100)
      [] shape = "zig" -> Fin(18209, 100)
      [] shape = "rally" -> Fin(5515, 100)

RECURSIVE SumFrom(_, _)
\* prices[from] + ... + prices[Len(prices)]
SumFrom(prices, from) ==
    IF from > Len(prices) THEN 0 ELSE prices[from] + SumFrom(prices, from + 1)

\* prices.slice(-period) starts at this (1-based) index
SliceStart(prices, period) == Max(1, Len(prices) - period + 1)

\* first variant: 0 on an empty series, else the mean of the slice
calculateSMA(prices, period) ==
    IF Len(prices) = 0 THEN Whole(0)
    ELSE Fin(SumFrom(prices, SliceStart(prices, period)),
             Len(prices) - SliceStart(prices, period) + 1)

\* second variant: the sum of the slice divided by the period
calculateSMA2(prices, period) ==
    Fin(SumFrom(prices, SliceStart(prices, period)), period)

\* [...prices].sort((a, b) => a - b): the k-th smallest element
SortedAt(prices, k) ==
    CHOOSE v \in {prices[i] : i \in 1..Len(prices)} :
        /\ Cardinality({i \in 1..Len(prices) : prices[i] < v}) < k
        /\ k <= Cardinality({i \in 1..Len(prices) : prices[i] <= v})

sortedPrices(prices) == [k \in 1..Len(prices) |-> SortedAt(prices, k)]

findSupportResistance(prices) ==
    LET sorted == sortedPrices(prices)
        q1Index == (Len(prices) * 25) \div 100
        q3Index == (Len(prices) * 75) \div 100
    IN  [support |-> sorted[q1Index + 1], resistance |-> sorted[q3Index + 1]]

----------------------------------------------------------------------------
(* Price targets *)

\* second variant's calculateMACD: the signal is EMA(9) of the one-element
\* array [macdLine], that is macdLine itself, and the histogram is 0
calculateMACD2(hist) ==
    [value |-> MacdLineOf(hist.shape),
     signal |-> MacdLineOf(hist.shape),
     histogram |-> RSub(MacdLineOf(hist.shape), MacdLineOf(hist.shape))]

\* first variant's calculateMACD
calculateMACD(hist) ==
    [value |-> MacdLineOf(hist.shape),
     signal |-> MacdSignalOf(hist.shape),
     histogram |-> RSub(MacdLineOf(hist.shape), MacdSignalOf(hist.shape))]

timeframeWeights(timeframe) ==
    CASE timeframe = "24H" ->
           [rsi |-> Fin(4, 10), macd |-> Fin(3, 10), trend |-> Fin(2, 10),
            volatility |-> Fin(1, 10)]
      [] timeframe = "7D" ->
           [rsi |-> Fin(3, 10), macd |-> Fin(3, 10), trend |-> Fin(3, 10),
            volatility |-> Fin(1, 10)]
      [] timeframe = "30D" ->
           [rsi |-> Fin(2, 10), macd |-> Fin(2, 10), trend |-> Fin(4, 10),
            volatility |-> Fin(2, 10)]

\* a double keeps about sixteen digits; the factors of the confidence are kept
\* here to the nearest thousandth (x >= 0), NaN and Infinity unchanged
Rounded(x) ==
    IF IsFin(x) THEN Fin((2 * x.n * 1000 + x.d) \div (2 * x.d), 1000) ELSE x

\* the inner calculateConfidence(timeframe) of calculatePriceTargets
targetConfidence(timeframe, rsi, macd, trendStrength, annualizedVol, momentum) ==
    LET rsiConfidence == RDiv(MathAbs(RSub(Whole(50), rsi)), Whole(50))
        macdConfidence == RDiv(MathAbs(macd.histogram), MathAbs(macd.signal))
        trendConfidence == Rounded(MathMin(Whole(1), RMul(trendStrength, Whole(2))))
        weights == timeframeWeights(timeframe)
        baseConfidence ==
            RMul(RAdd(RAdd(RMul(rsiConfidence, weights.rsi),
                           RMul(macdConfidence, weights.macd)),
                      RAdd(RMul(trendConfidence, weights.trend),
                           RMul(Rounded(RSub(Whole(1),
                                     MathMin(Whole(1), RDiv(annualizedVol, Whole(100))))),
                                weights.volatility))),
                 Whole(100))
        marketConditions ==
            IF RGt(momentum, Whole(0)) THEN Fin(11, 10)
            ELSE IF RLt(momentum, Whole(0)) THEN Fin(9, 10) ELSE Whole(1)
        volatilityPenalty ==
            Rounded(MathMax(Whole(0), RSub(Whole(1), RDiv(annualizedVol, Whole(200)))))
        timeDecay ==
            IF timeframe = "24H" THEN Whole(1)
            ELSE IF timeframe = "7D" THEN Fin(9, 10) ELSE Fin(8, 10)
    IN  MathMin(Whole(95), MathMax(Whole(30),
            RMul(RMul(RMul(baseConfidence, marketConditions), volatilityPenalty),
                 timeDecay)))

\* the 30D clamp fractions and multipliers used for every horizon
horizonAlwaysLongest(timeframe) ==
    [vol |-> Fin(3, 10), sr |-> Fin(6, 10), bias |-> Whole(3),
     lowClamp |-> Fin(90, 100), highClamp |-> Fin(110, 100)]

\* the horizon's multiplier of the volatility range, of the support and
\* resistance ranges and of the momentum bias, and its clamp fractions
horizon(timeframe) ==
    CASE timeframe = "24H" ->
           [vol |-> Fin(1, 10), sr |-> Fin(2, 10), bias |-> Whole(1),
            lowClamp |-> Whole(1), highClamp |-> Whole(1)]
      [] timeframe = "7D" ->
           [vol |-> Fin(2, 10), sr |-> Fin(4, 10), bias |-> Whole(2),
            lowClamp |-> Fin(95, 100), highClamp |-> Fin(105, 100)]
      [] timeframe = "30D" ->
           [vol |-> Fin(3, 10), sr |-> Fin(6, 10), bias |-> Whole(3),
            lowClamp |-> Fin(90, 100), highClamp |-> Fin(110, 100)]

\* one of shortTerm, midTerm, longTerm of calculatePriceTargets
targetFor(timeframe, currentPrice, annualizedVol, momentum, support, resistance, confidence) ==
    LET h == horizon(timeframe)
        volatilityRange == RMul(RMul(currentPrice, annualizedVol), h.vol)
        supportRange == RMul(MathAbs(RSub(currentPrice, support)), h.sr)
        resistanceRange == RMul(MathAbs(RSub(resistance, currentPrice)), h.sr)
        momentumBias == RMul(RMul(RMul(momentum, currentPrice), Fin(1, 10)), h.bias)
    IN  [low |-> MathMax(RMul(support, h.lowClamp),
                         RAdd(RSub(RSub(currentPrice, volatilityRange), supportRange),
                              momentumBias)),
         high |-> MathMin(RMul(resistance, h.highClamp),
                          RAdd(RAdd(RAdd(currentPrice, volatilityRange), resistanceRange),
                               momentumBias)),
         confidence |-> confidence]

\* second variant's calculatePriceTargets; `volatility` is not read
calculatePriceTargets(currentPrice, hist, volatility, support, resistance) ==
    LET annualizedVol == AnnualizedVolOf(hist.shape)
        sma20 == calculateSMA2(hist.prices, 20)
        sma50 == calculateSMA2(hist.prices, 50)
        momentum == RDiv(RSub(sma20, sma50), sma50)
        rsi == RsiOf(hist.shape)
        macd == calculateMACD2(hist)
        trendStrength == MathAbs(RDiv(RSub(currentPrice, sma50), sma50))
        conf(tf) == targetConfidence(tf, rsi, macd, trendStrength, annualizedVol, momentum)
        t(tf) == targetFor(tf, currentPrice, annualizedVol, momentum, support,
                           resistance, conf(tf))
    IN  [shortTerm |-> t("24H"), midTerm |-> t("7D"), longTerm |-> t("30D")]

\* the price targets computed in line by the first variant's
\* getDetailedAnalysis and by getFullAnalysis, from calculateVolatility
inlinePriceTargets(currentPrice, volatility) ==
    LET t(k) == [low |-> RMul(currentPrice, RSub(Whole(1), RMul(volatility, k))),
                 high |-> RMul(currentPrice, RAdd(Whole(1), RMul(volatility, k)))]
    IN  [shortTerm |-> t(Fin(1, 10)), midTerm |-> t(Fin(2, 10)),
         longTerm |-> t(Fin(3, 10))]

\* calculateVolatility: the annualized volatility in percent
calculateVolatility(hist) == RMul(AnnualizedVolOf(hist.shape), Whole(100))

Hist(shape) == [shape |-> shape, prices |-> Series(shape)]

\* the current prices explored: 60, 70, ..., 60 + 10 * MaxPriceStep
MaxPriceStep == 16
CurrentPrices == {Whole(60 + 10 * i) : i \in 0..MaxPriceStep}

TargetCalls ==
    [fn : {"calculatePriceTargets", "inlinePriceTargets"},
     currentPrice : CurrentPrices,
     hist : {Hist(shape) : shape \in Shapes}]

InitTargets ==
    /\ IdleServer
    /\ IdleComponent
    /\ call \in TargetCalls
    /\ ret = NoRet
    /\ IdleStrategy
    /\ IdleAnalysis

\* as getDetailedAnalysis (second variant) calls it: support and resistance
\* are those of the series
CallCalculatePriceTargets ==
    /\ call.fn = "calculatePriceTargets"
    /\ ~ret.done
    /\ LET sr == findSupportResistance(call.hist.prices)
       IN  ret' = Returned(calculatePriceTargets(
                      call.currentPrice, call.hist, VolatilityIndexOf(call.hist.shape),
                      Whole(sr.support), Whole(sr.resistance)))
    /\ UNCHANGED <<server, socket, component, call, sgData, sgOutcome, req, fetchLog>>

CallInlinePriceTargets ==
    /\ call.fn = "inlinePriceTargets"
    /\ ~ret.done
    /\ ret' = Returned(inlinePriceTargets(call.currentPrice,
                                          calculateVolatility(call.hist)))
    /\ UNCHANGED <<server, socket, component, call, sgData, sgOutcome, req, fetchLog>>

NextTargets == CallCalculatePriceTargets \/ CallInlinePriceTargets

SpecTargets == InitTargets /\ [][NextTargets]_vars

Brackets(target, price) == RLe(target.low, price) /\ RLe(price, target.high)

\* C7: for each of the three timeframes the computed price target satisfies
\* low <= current price <= high (the volatility is never negative), for every
\* current price, a price below support or above resistance included.
C7_TargetBracketsPrice ==
    ret.done =>
        /\ Brackets(ret.value.shortTerm, call.currentPrice)
        /\ Brackets(ret.value.midTerm, call.currentPrice)
        /\ Brackets(ret.value.longTerm, call.currentPrice)

\* the same for the targets computed in line from calculateVolatility
InlineTargetBracketsPrice ==
    (ret.done /\ call.fn = "inlinePriceTargets") =>
        /\ Brackets(ret.value.shortTerm, call.currentPrice)
        /\ Brackets(ret.value.midTerm, call.currentPrice)
        /\ Brackets(ret.value.longTerm, call.currentPrice)

----------------------------------------------------------------------------
(* getDetailedAnalysis and getFullAnalysis: one analysis request            *)

Requests == {"r1", "r2"}

\* getDetailedAnalysis2 is the getDetailedAnalysis of the file's second
\* AnalysisService class
Methods == {"getDetailedAnalysis", "getFullAnalysis", "getDetailedAnalysis2"}
SecondVariant(method) == method = "getDetailedAnalysis2"

\* what the history endpoint answers: a series, its volumes, the current price
HistoricalData(shape) ==
    [shape |-> shape,
     prices |-> Series(shape),
     volumes |-> [i \in 1..SeriesLen |-> 1000],
     current_price |-> Whole(Series(shape)[SeriesLen])]
HistoryShapes == {"up", "zig"}

\* what the news endpoint answers: the sentiment label of each item
NewsResponses == {<<>>, <<"positive", "positive", "negative">>}
\* the values Math.random() gives
RandomValues == {Fin(1, 5), Fin(9, 10)}
\* an element of the parsed document: the selector it answers to and its
\* text content, a sequence of words and of blanks " "
Element(selector, textContent) == [selector |-> selector, textContent |-> textContent]
SummarySelector == ".summary p.highlight"

\* the AI narrative, as the elements DOMParser finds in it ("" has none)
AiTexts == {<<>>, <<Element(SummarySelector, <<"Strong", "uptrend">>)>>}

calculateVolumeRatio(volumes) ==
    LET currentVolume == volumes[Len(volumes)]
        avgVolume == Fin(SumFrom(volumes, SliceStart(volumes, 20)), 20)
    IN  RDiv(Whole(currentVolume), avgVolume)

Count(newsItems, sentiment) ==
    Cardinality({i \in DOMAIN newsItems : newsItems[i] = sentiment})

marketMoodOf(positiveCount, negativeCount) ==
    IF positiveCount > negativeCount THEN "Bullish"
    ELSE IF negativeCount > positiveCount THEN "Bearish" ELSE "Neutral"

neutralSentiment ==
    [newsScore |-> Whole(50), socialScore |-> Whole(50), marketMood |-> "Neutral"]

newsScoreOf(newsItems) ==
    LET total == IF Len(newsItems) = 0 THEN 1 ELSE Len(newsItems)
    IN  RMul(Fin(Count(newsItems, "positive"), total), Whole(100))

\* first variant's getMarketSentiment, its news fetch resolved
getMarketSentiment(newsItems) ==
    [newsScore |-> newsScoreOf(newsItems),
     socialScore |-> MathMin(Whole(100), MathMax(Whole(0), newsScoreOf(newsItems))),
     marketMood |-> marketMoodOf(Count(newsItems, "positive"),
                                 Count(newsItems, "negative"))]

\* second variant's getMarketSentiment, its news fetch resolved
getMarketSentiment2(newsItems, random) ==
    [newsScore |-> newsScoreOf(newsItems),
     socialScore |-> RMul(random, Whole(100)),
     marketMood |-> marketMoodOf(Count(newsItems, "positive"),
                                 Count(newsItems, "negative"))]

\* the indicators computed between the history fetch and the sentiment fetch
indicatorsOf(method, historicalData) ==
    LET sr == findSupportResistance(historicalData.prices)
    IN  [rsi |-> RsiOf(historicalData.shape),
         macd |-> IF SecondVariant(method) THEN calculateMACD2(historicalData)
                  ELSE calculateMACD(historicalData),
         volumeRatio |-> calculateVolumeRatio(historicalData.volumes),
         volatility |-> IF SecondVariant(method)
                        THEN VolatilityIndexOf(historicalData.shape)
                        ELSE calculateVolatility(historicalData),
         support |-> Whole(sr.support),
         resistance |-> Whole(sr.resistance)]

\* x.toFixed(2), as the number it prints
toFixed2(x) ==
    IF ~IsFin(x) THEN x
    ELSE LET sgn == IF x.n < 0 THEN -1 ELSE 1
         IN  Fin(sgn * ((2 * Abs(x.n) * 100 + x.d) \div (2 * x.d)), 100)

rangeOf(target) == [low |-> toFixed2(target.low), high |-> toFixed2(target.high)]
rangesOf(priceTargets) ==
    [shortTerm |-> rangeOf(priceTargets.shortTerm),
     midTerm |-> rangeOf(priceTargets.midTerm),
     longTerm |-> rangeOf(priceTargets.longTerm)]

\* the 7D and 30D confidences derived from the 24H one
timeframeConfidences(shortTermConfidence) ==
    [shortTerm |-> shortTermConfidence,
     midTerm |-> MathMax(Whole(30), RMul(shortTermConfidence, Fin(9, 10))),
     longTerm |-> MathMax(Whole(30), RMul(shortTermConfidence, Fin(8, 10)))]

\* doc.querySelector: the first element in document order, <<>> for null
querySelector(doc, selector) ==
    LET hits == {i \in 1..Len(doc) : doc[i].selector = selector}
    IN  IF hits = {} THEN <<>>
        ELSE <<doc[CHOOSE i \in hits : \A j \in hits : i <= j]>>

\* String.prototype.trim
RECURSIVE trimStart(_)
trimStart(text) ==
    IF text # <<>> /\ Head(text) = " " THEN trimStart(Tail(text)) ELSE text

RECURSIVE trimEnd(_)
trimEnd(text) ==
    IF text # <<>> /\ text[Len(text)] = " "
    THEN trimEnd(SubSeq(text, 1, Len(text) - 1)) ELSE text

trim(text) == trimEnd(trimStart(text))

\* the summary section of parseAIAnalysis: `summaryElement?.textContent` is
\* falsy for null and for the empty string
parseAIAnalysis(html) ==
    LET summaryElement == querySelector(html, SummarySelector)
    IN  [summary |-> IF summaryElement # <<>> /\ summaryElement[1].textContent # <<>>
                     THEN <<trim(summaryElement[1].textContent)>>
                     ELSE <<>>]

\* the deterministic summary built from the indicators
marketSummary == <<"Market", "Analysis">>

\* `a ?? b`: only a missing first entry gives the market summary
summaryOrNullish(parsedAnalysis) ==
    IF parsedAnalysis.summary # <<>> THEN parsedAnalysis.summary[1] ELSE marketSummary

\* `parsedAnalysis.summary[0] || marketSummary`: undefined and "" are falsy
summaryOr(parsedAnalysis) ==
    IF parsedAnalysis.summary # <<>> /\ parsedAnalysis.summary[1] # <<>>
    THEN parsedAnalysis.summary[1]
    ELSE marketSummary

\* the summary field of the result
summaryOf(method, aiText) ==
    IF method = "getFullAnalysis" THEN marketSummary
    ELSE summaryOr(parseAIAnalysis(aiText))

\* what the call returns once the AI narrative has arrived
analysisResult(method, historicalData, ind, sentiment, aiText) ==
    LET aiSummary == summaryOf(method, aiText)
        inline == inlinePriceTargets(historicalData.current_price, ind.volatility)
    IN  CASE method = "getDetailedAnalysis" ->
               [summary |-> aiSummary,
                priceTargets |-> rangesOf(inline),
                confidence |-> timeframeConfidences(
                    calculateConfidence(ind.rsi, ind.macd, ind.volumeRatio,
                                        sentiment, ind.volatility))]
          [] method = "getFullAnalysis" ->
               [summary |-> aiSummary,
                priceTargets |-> rangesOf(inline),
                confidence |-> timeframeConfidences(
                    toFixed2(RSub(Whole(85), RDiv(ind.volatility, Whole(2)))))]
          [] method = "getDetailedAnalysis2" ->
               LET c == timeframeConfidences(
                            calculateConfidence2(ind.rsi, ind.macd, ind.volumeRatio,
                                                 sentiment, ind.volatility))
               IN  [summary |-> aiSummary,
                    priceTargets |-> rangesOf(calculatePriceTargets(
                        historicalData.current_price, historicalData,
                        ind.volatility, ind.support, ind.resistance)),
                    confidence |-> [shortTerm |-> toFixed2(c.shortTerm),
                                    midTerm |-> toFixed2(c.midTerm),
                                    longTerm |-> toFixed2(c.longTerm)]]

\* a request: absent values are <<>>, present ones <<value>>
IdleRequest ==
    [method |-> "none", pc |-> "idle", error |-> <<>>, hist |-> <<>>,
     indicators |-> <<>>, sentimentNews |-> <<>>, random |-> <<>>,
     sentiment |-> <<>>, news |-> <<>>, aiText |-> <<>>, result |-> <<>>]

\* a catch block that returns instead of rethrowing
catchSwallow(q, cause) == [q EXCEPT !.pc = "resolved"]

\* the catch block of the top-level call logs the error and rethrows it
catchRethrow(q, cause) == [q EXCEPT !.pc = "rejected", !.error = <<cause>>]

Started(fetch) == <<fetch, "start">>
Ok(fetch) == <<fetch, "ok">>
Failed(fetch) == <<fetch, "fail">>
Logged(r, event) == \E i \in DOMAIN fetchLog[r] : fetchLog[r][i] = event

InitAnalysis ==
    /\ IdleServer
    /\ IdleComponent
    /\ req = [r \in Requests |-> IdleRequest]
    /\ fetchLog = [r \in Requests |-> <<>>]
    /\ IdleStrategy
    /\ IdleCall

\* the call starts with the history fetch
Invoke(r, method) ==
    /\ req[r].pc = "idle"
    /\ req' = [req EXCEPT ![r] = [@ EXCEPT !.method = method, !.pc = "awaitHistory"]]
    /\ fetchLog' = [fetchLog EXCEPT ![r] = Append(@, Started("history"))]
    /\ UNCHANGED <<server, socket, component, sgData, sgOutcome, call, ret>>

\* the history arrives: the indicators are computed, then getMarketSentiment
\* starts its news fetch
HistoryResolves(r, shape) ==
    /\ req[r].pc = "awaitHistory"
    /\ req' = [req EXCEPT ![r] =
                 [@ EXCEPT !.hist = <<shape>>,
                           !.indicators = <<indicatorsOf(req[r].method, HistoricalData(shape))>>,
                           !.pc = "awaitSentiment"]]
    /\ fetchLog' = [fetchLog EXCEPT ![r] =
                      @ \o <<Ok("history"), <<"indicators", "computed">>,
                             Started("sentiment")>>]
    /\ UNCHANGED <<server, socket, component, sgData, sgOutcome, call, ret>>

HistoryRejects(r) ==
    /\ req[r].pc = "awaitHistory"
    /\ req' = [req EXCEPT ![r] = catchRethrow(@, "history")]
    /\ fetchLog' = [fetchLog EXCEPT ![r] = Append(@, Failed("history"))]
    /\ UNCHANGED <<server, socket, component, sgData, sgOutcome, call, ret>>

\* getMarketSentiment's fetch resolves; the call then fetches the news again
SentimentResolves(r, newsItems, random) ==
    /\ req[r].pc = "awaitSentiment"
    /\ req' = [req EXCEPT ![r] =
                 [@ EXCEPT !.sentimentNews = <<newsItems>>,
                           !.random = IF SecondVariant(req[r].method) THEN <<random>> ELSE <<>>,
                           !.sentiment = IF SecondVariant(req[r].method)
                                         THEN <<getMarketSentiment2(newsItems, random)>>
                                         ELSE <<getMarketSentiment(newsItems)>>,
                           !.pc = "awaitNews"]]
    /\ fetchLog' = [fetchLog EXCEPT ![r] = @ \o <<Ok("sentiment"), Started("news")>>]
    /\ UNCHANGED <<server, socket, component, sgData, sgOutcome, call, ret>>

\* getMarketSentiment's catch returns the neutral default
SentimentRejects(r) ==
    /\ req[r].pc = "awaitSentiment"
    /\ req' = [req EXCEPT ![r] =
                 [@ EXCEPT !.sentiment = <<neutralSentiment>>, !.pc = "awaitNews"]]
    /\ fetchLog' = [fetchLog EXCEPT ![r] = @ \o <<Failed("sentiment"), Started("news")>>]
    /\ UNCHANGED <<server, socket, component, sgData, sgOutcome, call, ret>>

\* the call's own news fetch resolves; getAIAnalysis starts its fetch
NewsResolves(r, newsItems) ==
    /\ req[r].pc = "awaitNews"
    /\ req' = [req EXCEPT ![r] = [@ EXCEPT !.news = <<newsItems>>, !.pc = "awaitAI"]]
    /\ fetchLog' = [fetchLog EXCEPT ![r] = @ \o <<Ok("news"), Started("ai")>>]
    /\ UNCHANGED <<server, socket, component, sgData, sgOutcome, call, ret>>

\* the call's own news fetch is awaited outside any inner try
NewsRejects(r) ==
    /\ req[r].pc = "awaitNews"
    /\ req' = [req EXCEPT ![r] = catchRethrow(@, "news")]
    /\ fetchLog' = [fetchLog EXCEPT ![r] = Append(@, Failed("news"))]
    /\ UNCHANGED <<server, socket, component, sgData, sgOutcome, call, ret>>

AIResolves(r, aiText) ==
    /\ req[r].pc = "awaitAI"
    /\ req' = [req EXCEPT ![r] =
                 [@ EXCEPT !.aiText = <<aiText>>,
                           !.result = <<analysisResult(
                                            req[r].method, HistoricalData(req[r].hist[1]),
                                            req[r].indicators[1], req[r].sentiment[1],
                                            aiText)>>,
                           !.pc = "resolved"]]
    /\ fetchLog' = [fetchLog EXCEPT ![r] = Append(@, Ok("ai"))]
    /\ UNCHANGED <<server, socket, component, sgData, sgOutcome, call, ret>>

AIRejects(r) ==
    /\ req[r].pc = "awaitAI"
    /\ req' = [req EXCEPT ![r] = catchRethrow(@, "ai")]
    /\ fetchLog' = [fetchLog EXCEPT ![r] = Append(@, Failed("ai"))]
    /\ UNCHANGED <<server, socket, component, sgData, sgOutcome, call, ret>>

NextAnalysis ==
    \E r \in Requests :
        \/ \E method \in Methods : Invoke(r, method)
        \/ \E shape \in HistoryShapes : HistoryResolves(r, shape)
        \/ HistoryRejects(r)
        \/ \E newsItems \in NewsResponses, random \in RandomValues :
               SentimentResolves(r, newsItems, random)
        \/ SentimentRejects(r)
        \/ \E newsItems \in NewsResponses : NewsResolves(r, newsItems)
        \/ NewsRejects(r)
        \/ \E aiText \in AiTexts : AIResolves(r, aiText)
        \/ AIRejects(r)

SpecAnalysis == InitAnalysis /\ [][NextAnalysis]_vars

\* C8: in an analysis whose history fetch succeeded, a failed sentiment fetch
\* leaves the neutral sentiment 50/50/Neutral in use, and no failed news
\* fetch makes getDetailedAnalysis or getFullAnalysis fail.
C8_NewsFailureTolerated ==
    \A r \in Requests :
        Logged(r, Ok("history")) =>
            /\ Logged(r, Failed("sentiment")) => req[r].sentiment = <<neutralSentiment>>
            /\ req[r].error # <<"news">>

\* the part of it that getMarketSentiment's own catch gives
SentimentFailureGivesNeutral ==
    \A r \in Requests :
        Logged(r, Failed("sentiment")) =>
            /\ req[r].sentiment = <<neutralSentiment>>
            /\ req[r].error # <<"sentiment">>

\* C9: in every request the AI fetch starts only after the history fetch has
\* resolved, the indicators have been computed and the sentiment fetch has
\* settled; and when the history fetch fails, neither the sentiment fetch
\* nor the AI fetch is ever started and the call is rejected with that error.
C9_AIFetchAfterHistoryAndSentiment ==
    \A r \in Requests :
        LET log == fetchLog[r]
            Earlier(j, events) == \E i \in 1..(j - 1) : log[i] \in events
        IN  /\ \A j \in DOMAIN log :
                   log[j] = Started("ai") =>
                       /\ Earlier(j, {Ok("history")})
                       /\ Earlier(j, {<<"indicators", "computed">>})
                       /\ Earlier(j, {Ok("sentiment"), Failed("sentiment")})
                       /\ req[r].indicators # <<>>
                       /\ req[r].sentiment # <<>>
            /\ Logged(r, Failed("history")) =>
                   /\ ~Logged(r, Started("sentiment"))
                   /\ ~Logged(r, Started("ai"))
                   /\ req[r].pc = "rejected"
                   /\ req[r].error = <<"history">>

\* one request waits for the AI narrative while another was rejected by its
\* history fetch
C9_Witness ==
    \E r1, r2 \in Requests :
        /\ req[r1].pc = "awaitAI" /\ Logged(r1, Started("ai"))
        /\ req[r2].pc = "rejected" /\ Logged(r2, Failed("history"))

SameInputs(a, b) ==
    /\ a.method = b.method
    /\ a.hist = b.hist
    /\ a.sentimentNews = b.sentimentNews
    /\ a.news = b.news
    /\ a.aiText = b.aiText

\* C10: two resolved runs of the same method given the same series, the same
\* news items and the same AI narrative have the same sentiment scores, the
\* same confidences and the same price targets.
C10_Deterministic ==
    \A r1, r2 \in Requests :
        (/\ req[r1].pc = "resolved" /\ req[r2].pc = "resolved"
         /\ SameInputs(req[r1], req[r2]))
        => /\ req[r1].sentiment = req[r2].sentiment
           /\ req[r1].result = req[r2].result

\* the same for the first class only, where no random number is drawn
FirstVariantDeterministic ==
    \A r1, r2 \in Requests :
        (/\ req[r1].pc = "resolved" /\ req[r2].pc = "resolved"
         /\ ~SecondVariant(req[r1].method)
         /\ SameInputs(req[r1], req[r2]))
        => /\ req[r1].sentiment = req[r2].sentiment
           /\ req[r1].result = req[r2].result

----------------------------------------------------------------------------
(* calculateSMA on short series *)

\* every sequence over S of length 0..n
SeqsUpTo(S, n) == UNION {[1..k -> S] : k \in 0..n}

MaxSmaLen == 4
MaxPeriod == 5
SmaPrices == {100, 110, 130}

SmaCalls ==
    [fn : {"calculateSMA", "calculateSMA2"},
     prices : SeqsUpTo(SmaPrices, MaxSmaLen),
     period : 1..MaxPeriod]

InitSMA ==
    /\ IdleServer
    /\ IdleComponent
    /\ call \in SmaCalls
    /\ ret = NoRet
    /\ IdleStrategy
    /\ IdleAnalysis

CallCalculateSMA ==
    /\ call.fn = "calculateSMA"
    /\ ~ret.done
    /\ ret' = Returned(calculateSMA(call.prices, call.period))
    /\ UNCHANGED <<server, socket, component, call, sgData, sgOutcome, req, fetchLog>>

CallCalculateSMA2 ==
    /\ call.fn = "calculateSMA2"
    /\ ~ret.done
    /\ ret' = Returned(calculateSMA2(call.prices, call.period))
    /\ UNCHANGED <<server, socket, component, call, sgData, sgOutcome, req, fetchLog>>

NextSMA == CallCalculateSMA \/ CallCalculateSMA2

SpecSMA == InitSMA /\ [][NextSMA]_vars

\* the arithmetic mean of the last min(n, Len(prices)) elements, 0 if empty
MeanOfLast(prices, n) ==
    LET k == Min(n, Len(prices))
        last == {i \in 1..Len(prices) : i > Len(prices) - k}
        Sum[S \in SUBSET last] ==
            IF S = {} THEN 0
            ELSE LET i == CHOOSE j \in S : TRUE IN prices[i] + Sum[S \ {i}]
    IN  IF k = 0 THEN Whole(0) ELSE Fin(Sum[last], k)

\* C11: both calculateSMA implementations return 0 for an empty series and
\* otherwise the arithmetic mean of the last min(n, len) elements.
C11_SMAIsMeanOfAvailable ==
    ret.done => ret.value = MeanOfLast(call.prices, call.period)

\* the same for the first class's calculateSMA only
FirstSMAIsMeanOfAvailable ==
    (ret.done /\ call.fn = "calculateSMA") =>
        ret.value = MeanOfLast(call.prices, call.period)

----------------------------------------------------------------------------
(* calculateRSI and calculateStochRSI (the same text in both classes, but
   for the guard of calculateStochRSI) *)

\* the default of the `period` parameter
DefaultPeriod == 14

\* prices[i] of the zero-based array: undefined past its end
At(prices, i) == IF i >= 0 /\ i < Len(prices) THEN Whole(prices[i + 1]) ELSE Undefined

\* `difference >= 0`: false for NaN
NonNegative(x) == RLe(Whole(0), x)

\* the first loop, from index i on: the sums of the gains and of the losses
RECURSIVE FirstLoop(_, _, _, _)
FirstLoop(prices, period, i, acc) ==
    IF i >= period + 1 THEN acc
    ELSE LET difference == RSub(At(prices, i), At(prices, i - 1))
         IN  FirstLoop(prices, period, i + 1,
                 IF NonNegative(difference)
                 THEN [acc EXCEPT !.gains = RAdd(@, difference)]
                 ELSE [acc EXCEPT !.losses = RSub(@, difference)])

\* the second loop, from index i on: the smoothing, its factor 13 fixed
RECURSIVE SecondLoop(_, _, _, _)
SecondLoop(prices, period, i, avg) ==
    IF i >= Len(prices) THEN avg
    ELSE LET difference == RSub(At(prices, i), At(prices, i - 1))
             p == Whole(period)
         IN  SecondLoop(prices, period, i + 1,
                 IF NonNegative(difference)
                 THEN [gain |-> RDiv(RAdd(RMul(avg.gain, Whole(13)), difference), p),
                       loss |-> RDiv(RMul(avg.loss, Whole(13)), p)]
                 ELSE [gain |-> RDiv(RMul(avg.gain, Whole(13)), p),
                       loss |-> RDiv(RSub(RMul(avg.loss, Whole(13)), difference), p)])

\* an RSI that reports the relative strength itself, not normalised
calculateRSIUnnormalised(prices, period) ==
    LET sums == FirstLoop(prices, period, 1, [gains |-> Whole(0), losses |-> Whole(0)])
        avg == SecondLoop(prices, period, period + 1,
                          [gain |-> RDiv(sums.gains, Whole(period)),
                           loss |-> RDiv(sums.losses, Whole(period))])
    IN  RMul(Whole(100), RDiv(avg.gain, avg.loss))

calculateRSI(prices, period) ==
    LET sums == FirstLoop(prices, period, 1, [gains |-> Whole(0), losses |-> Whole(0)])
        avg == SecondLoop(prices, period, period + 1,
                          [gain |-> RDiv(sums.gains, Whole(period)),
                           loss |-> RDiv(sums.losses, Whole(period))])
        rs == RDiv(avg.gain, avg.loss)
    IN  RSub(Whole(100), RDiv(Whole(100), RAdd(Whole(1), rs)))

\* the rolling RSI values: one per index i = period .. length - 1, each the
\* RSI (default period) of prices.slice(i - period, i + 1)
rsiValues(prices, period) ==
    [k \in 1..Max(0, Len(prices) - period) |->
        calculateRSI(SubSeq(prices, k, k + period), DefaultPeriod)]

\* Math.min and Math.max folded over the rolling values (none is infinite)
RECURSIVE FoldMin(_, _)
FoldMin(values, k) ==
    IF k = Len(values) THEN values[k] ELSE MathMin(values[k], FoldMin(values, k + 1))
RECURSIVE FoldMax(_, _)
FoldMax(values, k) ==
    IF k = Len(values) THEN values[k] ELSE MathMax(values[k], FoldMax(values, k + 1))

\* first class: 50 when the range is zero or not finite.  Without a window
\* the range is -Infinity - Infinity, not finite
calculateStochRSI(prices, period) ==
    LET values == rsiValues(prices, period)
    IN  IF Len(values) = 0 THEN Whole(50)
        ELSE LET minRSI == FoldMin(values, 1)
                 maxRSI == FoldMax(values, 1)
                 lastRSI == values[Len(values)]
                 range == RSub(maxRSI, minRSI)
             IN  IF ~IsFin(range) \/ range = Whole(0) THEN Whole(50)
                 ELSE RMul(RDiv(RSub(lastRSI, minRSI), range), Whole(100))

\* second class: no guard.  Without a window lastRSI is undefined and the
\* quotient (undefined - Infinity) / (-Infinity - Infinity) is NaN
calculateStochRSI2(prices, period) ==
    LET values == rsiValues(prices, period)
    IN  IF Len(values) = 0 THEN NaN
        ELSE LET minRSI == FoldMin(values, 1)
                 maxRSI == FoldMax(values, 1)
                 lastRSI == values[Len(values)]
             IN  RMul(RDiv(RSub(lastRSI, minRSI), RSub(maxRSI, minRSI)), Whole(100))

\* the series explored: LeadLen points at 100 (or none), then a free tail
LeadLen == 13
MaxTail == 4
TailPrices == {99, 100, 101, 102}
Lead(n) == [i \in 1..n |-> 100]
RsiSeries == {Lead(n) \o tail : n \in {0, LeadLen}, tail \in SeqsUpTo(TailPrices, MaxTail)}

StochCalls == [fn : {"calculateStochRSI", "calculateStochRSI2"}, prices : RsiSeries]

InitStoch ==
    /\ IdleServer
    /\ IdleComponent
    /\ call \in StochCalls
    /\ ret = NoRet
    /\ IdleStrategy
    /\ IdleAnalysis

CallCalculateStochRSI ==
    /\ call.fn = "calculateStochRSI"
    /\ ~ret.done
    /\ ret' = Returned(calculateStochRSI(call.prices, DefaultPeriod))
    /\ UNCHANGED <<server, socket, component, call, sgData, sgOutcome, req, fetchLog>>

CallCalculateStochRSI2 ==
    /\ call.fn = "calculateStochRSI2"
    /\ ~ret.done
    /\ ret' = Returned(calculateStochRSI2(call.prices, DefaultPeriod))
    /\ UNCHANGED <<server, socket, component, call, sgData, sgOutcome, req, fetchLog>>

NextStoch == CallCalculateStochRSI \/ CallCalculateStochRSI2

SpecStoch == InitStoch /\ [][NextStoch]_vars

\* the range of the rolling RSI values is zero or not finite
DegenerateRange(prices) ==
    LET values == rsiValues(prices, DefaultPeriod)
    IN  \/ Len(values) = 0
        \/ \E k \in DOMAIN values : ~IsFin(values[k])
        \/ \A j, k \in DOMAIN values : values[j] = values[k]

StochWithinContract(prices, value) ==
    /\ DegenerateRange(prices) => value = Whole(50)
    /\ IsFin(value) /\ RLe(Whole(0), value) /\ RLe(value, Whole(100))

\* C12: calculateStochRSI returns exactly 50 when the range of the rolling
\* RSI values is zero or not finite (flat series, no window, a NaN RSI),
\* otherwise a value within [0, 100], and never NaN.
C12_StochRSINeutralOnDegenerateRange ==
    ret.done => StochWithinContract(call.prices, ret.value)

\* the same for the first class's calculateStochRSI only
FirstStochRSIWithinContract ==
    (ret.done /\ call.fn = "calculateStochRSI") =>
        StochWithinContract(call.prices, ret.value)

----------------------------------------------------------------------------
(* calculateRSI on series with a gain and a loss *)

\* a period other than the default, for the short series
ShortPeriod == 2

RsiCalls ==
    {[fn |-> "calculateRSI", prices |-> prices, period |-> DefaultPeriod] :
        prices \in RsiSeries}
    \cup {[fn |-> "calculateRSI", prices |-> prices, period |-> ShortPeriod] :
             prices \in SeqsUpTo(TailPrices, MaxTail)}

InitRSI ==
    /\ IdleServer
    /\ IdleComponent
    /\ call \in RsiCalls
    /\ ret = NoRet
    /\ IdleStrategy
    /\ IdleAnalysis

CallCalculateRSI ==
    /\ call.fn = "calculateRSI"
    /\ ~ret.done
    /\ ret' = Returned(calculateRSI(call.prices, call.period))
    /\ UNCHANGED <<server, socket, component, call, sgData, sgOutcome, req, fetchLog>>

NextRSI == CallCalculateRSI

SpecRSI == InitRSI /\ [][NextRSI]_vars

HasGain(prices) == \E i \in 2..Len(prices) : prices[i] > prices[i - 1]
HasLoss(prices) == \E i \in 2..Len(prices) : prices[i] < prices[i - 1]

\* C13: for a series of at least period + 1 points with at least one gain
\* and at least one loss, calculateRSI returns a value within [0, 100].
C13_RSIWithinRange ==
    (/\ ret.done
     /\ Len(call.prices) >= call.period + 1
     /\ HasGain(call.prices) /\ HasLoss(call.prices))
    => /\ IsFin(ret.value)
       /\ RLe(Whole(0), ret.value) /\ RLe(ret.value, Whole(100))

\* a smoothed RSI (the series is longer than period + 1) of a series with a
\* gain and a loss, off the midpoint
C13_Witness ==
    /\ ret.done
    /\ Len(call.prices) > call.period + 1
    /\ HasGain(call.prices) /\ HasLoss(call.prices)
    /\ IsFin(ret.value) /\ ret.value # Whole(50)

----------------------------------------------------------------------------
(* the confidences of an analysis result *)

HasResult(r) == req[r].pc = "resolved"
confidenceOf(r) == req[r].result[1].confidence

\* |x - y| <= 1/100: x and y print the same but for the rounding of toFixed(2)
Near(x, y) == IsFin(x) /\ IsFin(y) /\ RLe(MathAbs(RSub(x, y)), Fin(1, 100))

\* mid-term = max(30, 0.9 * short-term) and long-term = max(30, 0.8 *
\* short-term), exactly where the result carries the numbers themselves and
\* to the cent where it carries them through toFixed(2)
DecayFormulaHolds ==
    \A r \in Requests :
        HasResult(r) =>
            LET c == confidenceOf(r)
                mid == MathMax(Whole(30), RMul(c.shortTerm, Fin(9, 10)))
                long == MathMax(Whole(30), RMul(c.shortTerm, Fin(8, 10)))
            IN  IF SecondVariant(req[r].method)
                THEN Near(c.midTerm, mid) /\ Near(c.longTerm, long)
                ELSE c.midTerm = mid /\ c.longTerm = long

NeverIncreasing(c) == RLe(c.midTerm, c.shortTerm) /\ RLe(c.longTerm, c.midTerm)

\* C14: in every analysis result the 7D confidence is max(30, 0.9 x 24H), the
\* 30D confidence is max(30, 0.8 x 24H), and so the confidences never
\* increase with the horizon: 24H >= 7D >= 30D.
C14_ConfidenceDecays ==
    DecayFormulaHolds /\ \A r \in Requests : HasResult(r) => NeverIncreasing(confidenceOf(r))

\* the same order for the results of getDetailedAnalysis only
DetailedConfidenceNeverIncreases ==
    \A r \in Requests :
        (HasResult(r) /\ req[r].method # "getFullAnalysis") =>
            NeverIncreasing(confidenceOf(r))

----------------------------------------------------------------------------
(* the confidence of determineRecommendation *)

\* the confidence before the MACD bonus: the base confidence rounded and
\* clamped to [35, 95], raised to the floor of the rule that was taken
confidenceBeforeBonus(data) ==
    LET ts == data.technicalSignals
        rsiValue == ts.momentum.rsi.value
        clamped == Min(95000, Max(35000,
                       RoundMilli(sgCalculateConfidence(ts, data.marketCondition))))
        rule == RuleTaken(rsiValue, toLowerCase(ts.trend.primary),
                          toLowerCase(ts.momentum.macd.signal),
                          toLowerCase(data.marketCondition.phase))
        floor == CASE rule = 1 -> Min(90000, rsiValue)
                   [] rule = 2 -> Min(90000, 100000 - rsiValue)
                   [] rule \in {3, 4} -> 65000
                   [] rule \in {5, 6} -> 60000
                   [] OTHER -> 0
    IN  Max(clamped, floor)

MacdText(data) == toLowerCase(data.technicalSignals.momentum.macd.signal)
Label == sgOutcome.strategy.recommendation.label

BonusDue ==
    \/ Label = "Buy" /\ includes(MacdText(sgData), "bullish")
    \/ Label = "Sell" /\ includes(MacdText(sgData), "bearish")

\* C15: the +8 bonus is applied exactly when the recommendation is Buy and the
\* MACD text contains 'bullish', or Sell and it contains 'bearish'; never for
\* Hold or Take Profit; and the confidence returned never exceeds 95.
C15_BonusOnlyOnAgreement ==
    Computed =>
        /\ sgOutcome.strategy.confidence =
             Min(95000, Round2Milli(confidenceBeforeBonus(sgData)
                                    + (IF BonusDue THEN 8000 ELSE 0)))
        /\ Label \in {"Hold", "Take Profit"} => ~BonusDue
        /\ sgOutcome.strategy.confidence <= 95000

\* a Buy with a bullish MACD text whose confidence is the floor plus 8, below
\* the cap
C15_Witness ==
    /\ Computed
    /\ Label = "Buy" /\ includes(MacdText(sgData), "bullish")
    /\ sgOutcome.strategy.confidence = confidenceBeforeBonus(sgData) + 8000
    /\ sgOutcome.strategy.confidence < 95000


OverboughtBullish(data) ==
    /\ data.technicalSignals.momentum.rsi.value > 70000
    /\ includes(toLowerCase(data.technicalSignals.trend.primary), "bullish")

RsiFloor(data) == Min(90000, data.technicalSignals.momentum.rsi.value)

\* C16 as stated: with RSI > 70 and a bullish primary trend the recommendation
\* is Take Profit and its confidence is at least min(90, RSI) and at most 95.
C16_TakeProfitAtLeastRsiFloor ==
    (Computed /\ OverboughtBullish(sgData)) =>
        /\ Label = "Take Profit"
        /\ sgOutcome.strategy.confidence >= RsiFloor(sgData)
        /\ sgOutcome.strategy.confidence <= 95000

\* C16: with RSI > 70 and a bullish primary trend the recommendation is Take
\* Profit and its confidence is at least min(90, RSI) rounded to two
\* decimals and at most 95, whatever the MACD text, phase and strengths are.
C16_TakeProfitAtLeastRoundedRsiFloor ==
    (Computed /\ OverboughtBullish(sgData)) =>
        /\ Label = "Take Profit"
        /\ sgOutcome.strategy.confidence >= RoundDiv(RsiFloor(sgData), 10) * 10
        /\ sgOutcome.strategy.confidence <= 95000

\* an overbought bullish input whose confidence is the rounded floor itself,
\* below the floor
C16_Witness ==
    /\ Computed /\ OverboughtBullish(sgData)
    /\ Label = "Take Profit"
    /\ sgOutcome.strategy.confidence = RoundDiv(RsiFloor(sgData), 10) * 10
    /\ sgOutcome.strategy.confidence < RsiFloor(sgData)

----------------------------------------------------------------------------
(* the clamps of calculatePriceTargets *)

SupportOf(prices) == Whole(findSupportResistance(prices).support)
ResistanceOf(prices) == Whole(findSupportResistance(prices).resistance)

WithinClamps(target, prices, fLow, fHigh) ==
    /\ RLe(RMul(SupportOf(prices), fLow), target.low)
    /\ RLe(target.high, RMul(ResistanceOf(prices), fHigh))

\* C17: the targets of calculatePriceTargets respect the clamps: low >=
\* support x f_low and high <= resistance x f_high with (f_low, f_high) =
\* (1, 1) for 24H, (0.95, 1.05) for 7D and (0.9, 1.1) for 30D.
C17_TargetsWithinClamps ==
    (ret.done /\ call.fn = "calculatePriceTargets") =>
        /\ WithinClamps(ret.value.shortTerm, call.hist.prices, Whole(1), Whole(1))
        /\ WithinClamps(ret.value.midTerm, call.hist.prices, Fin(95, 100), Fin(105, 100))
        /\ WithinClamps(ret.value.longTerm, call.hist.prices, Fin(90, 100), Fin(110, 100))

\* a current price below the support: the 24H low is the support itself and
\* the 30D low is 0.9 x support
C17_Witness ==
    /\ ret.done /\ call.fn = "calculatePriceTargets"
    /\ RLt(call.currentPrice, SupportOf(call.hist.prices))
    /\ ret.value.shortTerm.low = SupportOf(call.hist.prices)
    /\ ret.value.longTerm.low = RMul(SupportOf(call.hist.prices), Fin(90, 100))

----------------------------------------------------------------------------
(* calculateEMA and calculateMACD computed on short series (the tables
   MacdLineOf and MacdSignalOf hold their values on the 60-point series) *)

\* calculateEMA: ema[0] = prices[0], ema[i] = (prices[i] - ema[i-1]) * m + ema[i-1]
RECURSIVE calculateEMA(_, _)
calculateEMA(values, period) ==
    IF Len(values) <= 1 THEN values
    ELSE LET multiplier == Fin(2, period + 1)
             ema == calculateEMA(SubSeq(values, 1, Len(values) - 1), period)
             prev == ema[Len(ema)]
         IN  Append(ema, RAdd(RMul(RSub(values[Len(values)], prev), multiplier), prev))

Numbers(prices) == [i \in DOMAIN prices |-> Whole(prices[i])]

\* first class: the signal is the last element of EMA(9) of the MACD series
calculateMACDOf(prices) ==
    LET ema12 == calculateEMA(Numbers(prices), 12)
        ema26 == calculateEMA(Numbers(prices), 26)
        macdSeries == [i \in DOMAIN ema12 |-> RSub(ema12[i], ema26[i])]
        macdLine == macdSeries[Len(macdSeries)]
        signalSeries == calculateEMA(macdSeries, 9)
        signalLine == signalSeries[Len(signalSeries)]
    IN  [value |-> macdLine, signal |-> signalLine,
         histogram |-> RSub(macdLine, signalLine)]

\* second class: the signal is EMA(9) of the array [macdLine]
calculateMACD2Of(prices) ==
    LET ema12 == calculateEMA(Numbers(prices), 12)
        ema26 == calculateEMA(Numbers(prices), 26)
        macdLine == RSub(ema12[Len(ema12)], ema26[Len(ema26)])
        signalLine == calculateEMA(<<macdLine>>, 9)[1]
    IN  [value |-> macdLine, signal |-> signalLine,
         histogram |-> RSub(macdLine, signalLine)]

MacdLengths == {1, 2, 3}
MacdPrices == {10, 11, 12, 14}
MacdCalls ==
    [fn : {"calculateMACD", "calculateMACD2"},
     prices : UNION {[1..n -> MacdPrices] : n \in MacdLengths}]

InitMACD ==
    /\ IdleServer
    /\ IdleComponent
    /\ call \in MacdCalls
    /\ ret = NoRet
    /\ IdleStrategy
    /\ IdleAnalysis

CallCalculateMACD ==
    /\ call.fn = "calculateMACD"
    /\ ~ret.done
    /\ ret' = Returned(calculateMACDOf(call.prices))
    /\ UNCHANGED <<server, socket, component, call, sgData, sgOutcome, req, fetchLog>>

CallCalculateMACD2 ==
    /\ call.fn = "calculateMACD2"
    /\ ~ret.done
    /\ ret' = Returned(calculateMACD2Of(call.prices))
    /\ UNCHANGED <<server, socket, component, call, sgData, sgOutcome, req, fetchLog>>

NextMACD == CallCalculateMACD \/ CallCalculateMACD2

SpecMACD == InitMACD /\ [][NextMACD]_vars

\* the textbook EMA: e[1] = x[1], e[i] = k * x[i] + (1 - k) * e[i-1]
RECURSIVE EmaAt(_, _, _)
EmaAt(values, period, i) ==
    IF i = 1 THEN values[1]
    ELSE RAdd(RMul(Fin(2, period + 1), values[i]),
              RMul(Fin(period - 1, period + 1), EmaAt(values, period, i - 1)))

MacdSeriesOf(prices) ==
    [i \in DOMAIN prices |->
        RSub(EmaAt(Numbers(prices), 12, i), EmaAt(Numbers(prices), 26, i))]

MacdAsDefined(prices, macd) ==
    LET series == MacdSeriesOf(prices)
        signal == EmaAt(series, 9, Len(series))
    IN  /\ macd.value = series[Len(series)]
        /\ macd.signal = signal
        /\ macd.histogram = RSub(series[Len(series)], signal)

\* C18: the signal line of calculateMACD is the last element of EMA(9) of the
\* full MACD series (EMA12 - EMA26 index by index) and the histogram is the
\* last MACD value minus it; no calculateMACD takes the signal from a
\* one-element array holding the last MACD value.
C18_SignalIsEmaOfMacdSeries ==
    ret.done => MacdAsDefined(call.prices, ret.value)

\* the same for the first class's calculateMACD only
FirstMacdSignalIsEmaOfMacdSeries ==
    (ret.done /\ call.fn = "calculateMACD") => MacdAsDefined(call.prices, ret.value)

----------------------------------------------------------------------------
(* the sentiment sub-score of calculateConfidence *)

\* the scores supplied: 0, 10, ..., 100, or none
MaxScoreStep == 10
SuppliedScores == {Whole(10 * i) : i \in 0..MaxScoreStep} \cup {Undefined}

SentimentCalls ==
    [fn : {"sentimentConfidence"},
     sentiment : [newsScore : SuppliedScores, socialScore : SuppliedScores]]

InitSentiment ==
    /\ IdleServer
    /\ IdleComponent
    /\ call \in SentimentCalls
    /\ ret = NoRet
    /\ IdleStrategy
    /\ IdleAnalysis

CallSentimentConfidence ==
    /\ call.fn = "sentimentConfidence"
    /\ ~ret.done
    /\ ret' = Returned(sentimentConfidenceOf(call.sentiment))
    /\ UNCHANGED <<server, socket, component, call, sgData, sgOutcome, req, fetchLog>>

NextSentiment == CallSentimentConfidence

SpecSentiment == InitSentiment /\ [][NextSentiment]_vars

\* the score, or 50 when it is absent
ScoreOr50(score) == IF score = Undefined THEN Whole(50) ELSE score

\* C19: the sentiment sub-score is the mean (newsScore + socialScore) / 2 of
\* the supplied scores, a supplied 0 included; 50 stands in only for a score
\* that is absent.
C19_SentimentIsMeanOfSupplied ==
    ret.done =>
        ret.value = RDiv(RAdd(ScoreOr50(call.sentiment.newsScore),
                              ScoreOr50(call.sentiment.socialScore)), Whole(2))

\* the same when no supplied score is 0
SentimentIsMeanOfNonZero ==
    (/\ ret.done
     /\ call.sentiment.newsScore # Whole(0)
     /\ call.sentiment.socialScore # Whole(0))
    => ret.value = RDiv(RAdd(ScoreOr50(call.sentiment.newsScore),
                             ScoreOr50(call.sentiment.socialScore)), Whole(2))

----------------------------------------------------------------------------
(* calculateVolumeRatio on short series *)

MaxVolumeLen == 3
VolumeValues == {500, 1000, 4000}
\* the periods explored beside the default 20
ShortVolumePeriods == {1, 2}

\* calculateVolumeRatio with its `period` parameter
calculateVolumeRatioOver(volumes, period) ==
    LET currentVolume == At(volumes, Len(volumes) - 1)
        avgVolume == Fin(SumFrom(volumes, SliceStart(volumes, period)), period)
    IN  RDiv(currentVolume, avgVolume)

VolumeCalls ==
    [fn : {"calculateVolumeRatio"},
     volumes : SeqsUpTo(VolumeValues, MaxVolumeLen) \ {<<>>},
     period : ShortVolumePeriods \cup {20}]

InitVolume ==
    /\ IdleServer
    /\ IdleComponent
    /\ call \in VolumeCalls
    /\ ret = NoRet
    /\ IdleStrategy
    /\ IdleAnalysis

CallCalculateVolumeRatio ==
    /\ call.fn = "calculateVolumeRatio"
    /\ ~ret.done
    /\ ret' = Returned(calculateVolumeRatioOver(call.volumes, call.period))
    /\ UNCHANGED <<server, socket, component, call, sgData, sgOutcome, req, fetchLog>>

NextVolume == CallCalculateVolumeRatio

SpecVolume == InitVolume /\ [][NextVolume]_vars

\* C20: calculateVolumeRatio returns the last volume divided by the mean of
\* the last `period` volumes, the mean taken over the elements available
\* when there are fewer: a constant non-empty series yields 1.
C20_RatioOverAvailableVolumes ==
    ret.done =>
        /\ ret.value = RDiv(Whole(call.volumes[Len(call.volumes)]),
                            MeanOfLast(call.volumes, call.period))
        /\ (\A i \in DOMAIN call.volumes : call.volumes[i] = call.volumes[1])
               => ret.value = Whole(1)

\* the same when the series has at least `period` elements
RatioOverFullWindow ==
    (ret.done /\ Len(call.volumes) >= call.period) =>
        ret.value = RDiv(Whole(call.volumes[Len(call.volumes)]),
                         MeanOfLast(call.volumes, call.period))

----------------------------------------------------------------------------
(* calculateOBV (the same text in both classes) *)

\* the loop from index i on (zero-based), obvValues ending in the running sum
RECURSIVE ObvLoop(_, _, _, _)
ObvLoop(prices, volumes, i, obvValues) ==
    IF i >= Len(prices) THEN obvValues
    ELSE LET obv == obvValues[Len(obvValues)]
             next == IF prices[i + 1] > prices[i] THEN obv + volumes[i + 1]
                     ELSE IF prices[i + 1] < prices[i] THEN obv - volumes[i + 1]
                     ELSE obv
         IN  ObvLoop(prices, volumes, i + 1, Append(obvValues, next))

\* the whole of obvValues taken as the window
recentOBVWhole(obvValues) == obvValues

\* obvValues.slice(-5)
recentOBV(obvValues) == SubSeq(obvValues, Max(1, Len(obvValues) - 4), Len(obvValues))

calculateOBV(prices, volumes) ==
    LET obvValues == ObvLoop(prices, volumes, 1, <<0>>)
        recent == recentOBV(obvValues)
    IN  IF recent[Len(recent)] > recent[1] THEN "Bullish" ELSE "Bearish"

MaxObvLen == 6
ObvPrices == {100, 101, 102}
ScenarioPrices == <<100, 102, 101, 105, 107, 103, 108, 110, 106, 112>>
\* the volumes: all 1000, or 1000, 2000, 3000, ...
ConstantVolumes(n) == [i \in 1..n |-> 1000]
RisingVolumes(n) == [i \in 1..n |-> 1000 * i]

ObvCalls ==
    {[fn |-> "calculateOBV", prices |-> prices, volumes |-> volumes] :
        prices \in SeqsUpTo(ObvPrices, MaxObvLen) \cup {ScenarioPrices},
        volumes \in {ConstantVolumes(Len(ScenarioPrices)),
                     RisingVolumes(Len(ScenarioPrices))}}

InitOBV ==
    /\ IdleServer
    /\ IdleComponent
    /\ call \in ObvCalls
    /\ ret = NoRet
    /\ IdleStrategy
    /\ IdleAnalysis

CallCalculateOBV ==
    /\ call.fn = "calculateOBV"
    /\ ~ret.done
    /\ ret' = Returned(calculateOBV(call.prices, call.volumes))
    /\ UNCHANGED <<server, socket, component, call, sgData, sgOutcome, req, fetchLog>>

NextOBV == CallCalculateOBV

SpecOBV == InitOBV /\ [][NextOBV]_vars

\* the running sum after the point at (one-based) position k: + volume on a
\* rise, - volume on a fall, unchanged on equality, 0 at the first point
RECURSIVE RunningObv(_, _, _)
RunningObv(prices, volumes, k) ==
    IF k <= 1 THEN 0
    ELSE RunningObv(prices, volumes, k - 1)
         + (IF prices[k] > prices[k - 1] THEN volumes[k]
            ELSE IF prices[k] < prices[k - 1] THEN 0 - volumes[k] ELSE 0)

\* the last of the most recent 5 cumulative values exceeds the first of them
ObvRises(prices, volumes) ==
    LET n == Max(1, Len(prices))
    IN  RunningObv(prices, volumes, n) > RunningObv(prices, volumes, Max(1, n - 4))

\* C21: calculateOBV returns 'Bullish' if and only if the last of the most
\* recent 5 values of the running sum is strictly greater than the first of
\* that window, else 'Bearish'; the scenario series with constant volume
\* 1000 is 'Bullish'.
C21_OBVLabel ==
    ret.done =>
        /\ ret.value = (IF ObvRises(call.prices, call.volumes)
                        THEN "Bullish" ELSE "Bearish")
        /\ (call.prices = ScenarioPrices
            /\ call.volumes = ConstantVolumes(Len(ScenarioPrices)))
               => ret.value = "Bullish"

\* the scenario series, labelled 'Bullish'
C21_Witness ==
    /\ ret.done
    /\ call.prices = ScenarioPrices
    /\ call.volumes = ConstantVolumes(Len(ScenarioPrices))
    /\ ret.value = "Bullish"

----------------------------------------------------------------------------
(* findSupportResistance as a call: the result and the caller's array *)

\* the caller's array, had sort been applied to it and not to a copy
pricesAfterSortingInput(prices) == sortedPrices(prices)

\* [...prices] is a new array, so sort leaves the caller's array as it was
pricesAfterCall(prices) == prices

MaxLevelsLen == 5
LevelPrices == {100, 110, 130}

LevelCalls ==
    {[fn |-> "findSupportResistance", prices |-> prices] :
        prices \in SeqsUpTo(LevelPrices, MaxLevelsLen) \ {<<>>}}

InitLevels ==
    /\ IdleServer
    /\ IdleComponent
    /\ call \in LevelCalls
    /\ ret = NoRet
    /\ IdleStrategy
    /\ IdleAnalysis

CallFindSupportResistance ==
    /\ call.fn = "findSupportResistance"
    /\ ~ret.done
    /\ ret' = Returned([levels |-> findSupportResistance(call.prices),
                        prices |-> pricesAfterCall(call.prices)])
    /\ UNCHANGED <<server, socket, component, call, sgData, sgOutcome, req, fetchLog>>

NextLevels == CallFindSupportResistance

SpecLevels == InitLevels /\ [][NextLevels]_vars

\* v put into the ascending sequence s
RECURSIVE InsertAscending(_, _)
InsertAscending(s, v) ==
    IF s = <<>> THEN <<v>>
    ELSE IF v <= Head(s) THEN <<v>> \o s
    ELSE <<Head(s)>> \o InsertAscending(Tail(s), v)

\* s in ascending order
RECURSIVE Ascending(_)
Ascending(s) ==
    IF s = <<>> THEN <<>> ELSE InsertAscending(Ascending(Tail(s)), Head(s))

Members(s) == {s[i] : i \in 1..Len(s)}

\* C22: for a non-empty series of length n, support is the element at index
\* floor(n * 0.25) and resistance the element at index floor(n * 0.75) of the
\* ascending series; both are members of the input, support <= resistance,
\* and the input array is left unmodified.
C22_QuartilesOfSorted ==
    (ret.done /\ call.prices # <<>>) =>
        LET n == Len(call.prices)
            sorted == Ascending(call.prices)
            levels == ret.value.levels
        IN  /\ levels.support = sorted[(n \div 4) + 1]
            /\ levels.resistance = sorted[((3 * n) \div 4) + 1]
            /\ levels.support \in Members(call.prices)
            /\ levels.resistance \in Members(call.prices)
            /\ levels.support <= levels.resistance
            /\ ret.value.prices = call.prices

\* an unsorted series whose two levels differ
C22_Witness ==
    /\ ret.done
    /\ Len(call.prices) >= 4
    /\ call.prices # Ascending(call.prices)
    /\ ret.value.levels.support < ret.value.levels.resistance

----------------------------------------------------------------------------
(* calculateRSI with a period other than the default *)

ReducedPeriods == {4, 5}

WilderCalls ==
    RsiCalls
    \cup {[fn |-> "calculateRSI", prices |-> ScenarioPrices, period |-> period] :
             period \in ReducedPeriods}

InitWilder ==
    /\ IdleServer
    /\ IdleComponent
    /\ call \in WilderCalls
    /\ ret = NoRet
    /\ IdleStrategy
    /\ IdleAnalysis

NextWilder == CallCalculateRSI

SpecWilder == InitWilder /\ [][NextWilder]_vars

\* the gain and the loss of the delta ending at (zero-based) index i
GainAt(prices, i) == Max(0, prices[i + 1] - prices[i])
LossAt(prices, i) == Max(0, prices[i] - prices[i + 1])

\* Wilder's averages after the delta ending at (zero-based) index i >= period:
\* the mean of the first period gains (losses), then
\* avg = (avg * (period - 1) + gain) / period for each later delta
RECURSIVE WilderGain(_, _, _)
WilderGain(prices, period, i) ==
    IF i <= period
    THEN RDiv(Whole(SumFrom([k \in 1..period |-> GainAt(prices, k)], 1)), Whole(period))
    ELSE RDiv(RAdd(RMul(WilderGain(prices, period, i - 1), Whole(period - 1)),
                   Whole(GainAt(prices, i))),
              Whole(period))

RECURSIVE WilderLoss(_, _, _)
WilderLoss(prices, period, i) ==
    IF i <= period
    THEN RDiv(Whole(SumFrom([k \in 1..period |-> LossAt(prices, k)], 1)), Whole(period))
    ELSE RDiv(RAdd(RMul(WilderLoss(prices, period, i - 1), Whole(period - 1)),
                   Whole(LossAt(prices, i))),
              Whole(period))

WilderRSI(prices, period) ==
    LET rs == RDiv(WilderGain(prices, period, Len(prices) - 1),
                   WilderLoss(prices, period, Len(prices) - 1))
    IN  RSub(Whole(100), RDiv(Whole(100), RAdd(Whole(1), rs)))

\* x rounded to 2 decimals, in hundredths
Hundredths(x) == (x.n \div x.d) * 100 + ((x.n % x.d) * 100 + x.d \div 2) \div x.d

\* equal to 2 decimals
MatchesReference(x, reference) ==
    IF IsFin(x) /\ IsFin(reference)
    THEN Hundredths(x) = Hundredths(reference)
    ELSE x = reference

EnoughPoints == Len(call.prices) >= call.period + 1

\* C23: for every period, calculateRSI returns the RSI of Wilder's averages
\* avgGain = (avgGain * (period - 1) + gain) / period and
\* avgLoss = (avgLoss * (period - 1) + loss) / period, seeded from the first
\* period deltas -- on the scenario series with a reduced period too.
C23_WilderForEveryPeriod ==
    (ret.done /\ EnoughPoints) =>
        MatchesReference(ret.value, WilderRSI(call.prices, call.period))

\* with the default period the smoothing is Wilder's
WilderAtDefaultPeriod ==
    (ret.done /\ EnoughPoints /\ call.period = DefaultPeriod) =>
        MatchesReference(ret.value, WilderRSI(call.prices, call.period))

----------------------------------------------------------------------------
(* The stop-loss tiers and the targets as functions of the market strength *)

\* price x (1 - strength x m / 100), in cents (strength in hundredths)
StopAt(price, strength, m) == RoundDiv(price * (10000 - strength * m), 10000)

\* price x (1 + strength x t x b / 100), in cents (t in halves)
TargetAt(price, strength, t2, b) == RoundDiv(price * (20000 + strength * t2 * b), 20000)

\* 1.5 in a bull phase, 0.5 in a bear phase, else 1, in halves
PhaseFactor2(phase) ==
    IF toLowerCase(phase) = <<"bull", "market">> THEN 3
    ELSE IF toLowerCase(phase) = <<"bear", "market">> THEN 1 ELSE 2

DistancesFollow(strategy, price, phase, strength) ==
    /\ strategy.stopLoss.tight = StopAt(price, strength, 2)
    /\ strategy.stopLoss.normal = StopAt(price, strength, 3)
    /\ strategy.stopLoss.wide = StopAt(price, strength, 5)
    /\ strategy.targets.primary = TargetAt(price, strength, PhaseFactor2(phase), 3)
    /\ strategy.targets.secondary = TargetAt(price, strength, PhaseFactor2(phase), 5)
    /\ strategy.targets.final = TargetAt(price, strength, PhaseFactor2(phase), 8)

\* C24: for every market strength in [0, 1], 0 included, and valid price the
\* stop-loss tiers are price x (1 - strength x m / 100), m = 2 / 3 / 5, and
\* the targets price x (1 + strength x t x b / 100), b = 3 / 5 / 8, t = 1.5
\* in a bull phase, 0.5 in a bear phase, else 1, each rounded to 2 decimals.
C24_DistancesScaleWithStrength ==
    (Computed /\ sgOutcome.kind = "resolved") =>
        DistancesFollow(sgOutcome.strategy, sgData.currentPrice.v,
                        sgData.marketCondition.phase, sgData.marketCondition.strength)

\* the same for a strength other than 0
PositiveStrengthDistances ==
    (Computed /\ sgOutcome.kind = "resolved" /\ sgData.marketCondition.strength # 0) =>
        DistancesFollow(sgOutcome.strategy, sgData.currentPrice.v,
                        sgData.marketCondition.phase, sgData.marketCondition.strength)

----------------------------------------------------------------------------
(* The summary a successful analysis returns, over short AI narratives *)

MaxElements == 2
TextContents == {<<>>, <<" ">>, <<" ", "Strong", "uptrend", " ">>}
Elements ==
    {Element("p", <<"Intro">>)}
    \cup {Element(SummarySelector, textContent) : textContent \in TextContents}
Narratives == SeqsUpTo(Elements, MaxElements)

SummaryCalls == [fn : Methods, aiAnalysis : Narratives]

InitSummary ==
    /\ IdleServer
    /\ IdleComponent
    /\ call \in SummaryCalls
    /\ ret = NoRet
    /\ IdleStrategy
    /\ IdleAnalysis

\* the call's fetches all resolve, the AI narrative being call.aiAnalysis
ReturnSummary ==
    /\ call.fn \in Methods
    /\ ~ret.done
    /\ ret' = Returned(summaryOf(call.fn, call.aiAnalysis))
    /\ UNCHANGED <<server, socket, component, call, sgData, sgOutcome, req, fetchLog>>

NextSummary == ReturnSummary

SpecSummary == InitSummary /\ [][NextSummary]_vars

Detailed(method) == method \in {"getDetailedAnalysis", "getDetailedAnalysis2"}

HasHighlight(html) == \E i \in 1..Len(html) : html[i].selector = SummarySelector

\* the text of the first '.summary p.highlight' element, blanks at its two
\* ends removed
HighlightText(html) ==
    LET first == CHOOSE i \in 1..Len(html) :
                     /\ html[i].selector = SummarySelector
                     /\ \A j \in 1..(i - 1) : html[j].selector # SummarySelector
        text == html[first].textContent
        words == {k \in 1..Len(text) : text[k] # " "}
    IN  IF words = {} THEN <<>>
        ELSE SubSeq(text, CHOOSE k \in words : \A l \in words : k <= l,
                          CHOOSE k \in words : \A l \in words : l <= k)

\* C25 as stated: a successful getDetailedAnalysis returns marketSummary when
\* the narrative has no '.summary p.highlight' element (or is empty), and the
\* parsed summary when it has one.
C25_ParsedSummaryWheneverMatched ==
    (ret.done /\ Detailed(call.fn)) =>
        ret.value = (IF HasHighlight(call.aiAnalysis)
                     THEN HighlightText(call.aiAnalysis)
                     ELSE marketSummary)

\* C25: a successful getDetailedAnalysis returns the parsed summary when the
\* narrative has a '.summary p.highlight' element whose trimmed text is not
\* empty, and marketSummary in every other case.
C25_MarketSummaryUnlessNonEmptyMatch ==
    (ret.done /\ Detailed(call.fn)) =>
        ret.value = (IF HasHighlight(call.aiAnalysis)
                        /\ HighlightText(call.aiAnalysis) # <<>>
                     THEN HighlightText(call.aiAnalysis)
                     ELSE marketSummary)

\* a matched paragraph of blanks only: the market summary is returned
C25_Witness ==
    /\ ret.done
    /\ call.fn = "getDetailedAnalysis"
    /\ call.aiAnalysis = <<Element("p", <<"Intro">>), Element(SummarySelector, <<" ">>)>>
    /\ ret.value = marketSummary

----------------------------------------------------------------------------
(* the ranges of calculatePriceTargets *)

NonInverted(target) == RLe(target.low, target.high)

\* C26: for every timeframe calculatePriceTargets returns a range with
\* low <= high, for every current price, support <= resistance and
\* volatility >= 0 -- a price far above the resistance or far below the
\* support included.
C26_RangeNotInverted ==
    (ret.done /\ call.fn = "calculatePriceTargets") =>
        /\ NonInverted(ret.value.shortTerm)
        /\ NonInverted(ret.value.midTerm)
        /\ NonInverted(ret.value.longTerm)

----------------------------------------------------------------------------
(* the ordering of the levels of a strategy *)

StopsAndTargetsOrdered(s) ==
    /\ s.stopLoss.wide <= s.stopLoss.normal
    /\ s.stopLoss.normal <= s.stopLoss.tight
    /\ s.stopLoss.tight <= s.entries.moderate
    /\ s.entries.moderate <= s.targets.primary
    /\ s.targets.primary <= s.targets.secondary
    /\ s.targets.secondary <= s.targets.final

EntriesOrdered(s) ==
    /\ s.entries.conservative <= s.entries.moderate
    /\ s.entries.moderate <= s.entries.aggressive

\* C27: every strategy generateStrategy resolves to, computed or default, has
\* stopLoss.wide <= normal <= tight <= entries.moderate <= targets.primary
\* <= secondary <= final and entries.conservative <= moderate <= aggressive.
C27_LevelsOrdered ==
    sgOutcome.kind = "resolved" =>
        /\ StopsAndTargetsOrdered(sgOutcome.strategy)
        /\ EntriesOrdered(sgOutcome.strategy)

\* the stops and targets of a computed strategy are ordered
ComputedStopsAndTargetsOrdered ==
    (Computed /\ sgOutcome.kind = "resolved") =>
        StopsAndTargetsOrdered(sgOutcome.strategy)

----------------------------------------------------------------------------
(* The server's CoinGecko requests: /api/crypto/price, /api/crypto/history
   and the WebSocket price update, sharing lastCoinGeckoRequest and cache.
   Times are in milliseconds; the clock advances in steps of one second. *)

COINGECKO_REQUEST_DELAY == 6000
CACHE_DURATION == [PRICE |-> 2 * 60 * 1000, HISTORY |-> 30 * 60 * 1000]

\* the clock readings explored after the server's start, in steps
MaxTicks == 8
\* the requests and timer firings explored
MaxRequests == 3
Handlers == {"h1", "h2"}
HandlerKinds == {"price", "history", "update"}

\* the server starts long after the epoch: no wait is due for lastCoinGeckoRequest = 0
StartTime == 2 * COINGECKO_REQUEST_DELAY

cacheKey(kind) == IF kind = "history" THEN "history-bitcoin-1" ELSE "price-bitcoin"
cacheDuration(kind) == IF kind = "history" THEN CACHE_DURATION.HISTORY ELSE CACHE_DURATION.PRICE
CacheKeys == {cacheKey(kind) : kind \in HandlerKinds}

IdleHandler == [kind |-> "none", pc |-> "idle", wake |-> 0]

\* `cached && Date.now() - cached.timestamp < CACHE_DURATION...`
Fresh(s, kind) ==
    /\ s.cache[cacheKey(kind)] # <<>>
    /\ s.now - s.cache[cacheKey(kind)][1] < cacheDuration(kind)

\* axios.get is called: the request leaves for CoinGecko now
Issue(s, h, kind) ==
    [s EXCEPT !.handlers[h] = [kind |-> kind, pc |-> "awaitUpstream", wake |-> 0],
              !.issued = Append(s.issued, s.now)]

\* a handler up to its first await: a fresh cache entry answers; the two HTTP
\* endpoints then sleep for what is left of the delay; sendPriceUpdate does
\* not look at lastCoinGeckoRequest
requestStart(s, h, kind) ==
    LET timeSinceLastRequest == s.now - s.lastCoinGeckoRequest
    IN  IF Fresh(s, kind)
        THEN [s EXCEPT !.handlers[h] = [kind |-> kind, pc |-> "done", wake |-> 0]]
        ELSE IF kind # "update" /\ timeSinceLastRequest < COINGECKO_REQUEST_DELAY
        THEN [s EXCEPT !.handlers[h] =
                  [kind |-> kind, pc |-> "sleeping",
                   wake |-> s.now + (COINGECKO_REQUEST_DELAY - timeSinceLastRequest)]]
        ELSE Issue(s, h, kind)

InitServer ==
    /\ server = [now |-> StartTime, ticks |-> 0, received |-> 0,
                 lastCoinGeckoRequest |-> 0,
                 cache |-> [k \in CacheKeys |-> <<>>],
                 handlers |-> [h \in Handlers |-> IdleHandler],
                 issued |-> <<>>]
    /\ socket = <<>>
    /\ IdleComponent
    /\ IdleStrategy
    /\ IdleCall
    /\ IdleAnalysis

ServerStep(next) ==
    /\ server' = next
    /\ UNCHANGED <<socket, component, sgData, sgOutcome, call, ret, req, fetchLog>>

\* a second passes
Tick ==
    /\ server.ticks < MaxTicks
    /\ ServerStep([server EXCEPT !.now = @ + 1000, !.ticks = @ + 1])

\* an HTTP request arrives, or a connection's timer fires sendPriceUpdate
Receive(h, kind) ==
    /\ server.handlers[h].pc \in {"idle", "done"}
    /\ server.received < MaxRequests
    /\ ServerStep(requestStart([server EXCEPT !.received = @ + 1], h, kind))

\* the setTimeout of the rate-limit wait fires
Wake(h) ==
    /\ server.handlers[h].pc = "sleeping"
    /\ server.now >= server.handlers[h].wake
    /\ ServerStep(Issue(server, h, server.handlers[h].kind))

\* CoinGecko answers; valid: the answer has the expected fields
UpstreamResolves(h, valid) ==
    /\ server.handlers[h].pc = "awaitUpstream"
    /\ LET kind == server.handlers[h].kind
           stamped == (kind = "history") \/ (kind = "price" /\ valid)
       IN  ServerStep(
               [server EXCEPT
                   !.handlers[h].pc = "done",
                   !.lastCoinGeckoRequest = IF stamped THEN server.now ELSE @,
                   !.cache[cacheKey(kind)] = IF valid THEN <<server.now>> ELSE @])

\* the request fails (timeout, HTTP error): the catch block answers
UpstreamRejects(h) ==
    /\ server.handlers[h].pc = "awaitUpstream"
    /\ ServerStep([server EXCEPT !.handlers[h].pc = "done"])

NextServer ==
    \/ Tick
    \/ \E h \in Handlers :
           \/ \E kind \in HandlerKinds : Receive(h, kind)
           \/ Wake(h)
           \/ \E valid \in BOOLEAN : UpstreamResolves(h, valid)
           \/ UpstreamRejects(h)

SpecServer == InitServer /\ [][NextServer]_vars

\* C28: any two CoinGecko requests the server issues are at least
\* COINGECKO_REQUEST_DELAY apart, under every interleaving of price requests,
\* history requests and WebSocket price updates.
C28_UpstreamRequestsSpaced ==
    \A i, j \in 1..Len(server.issued) :
        i < j => server.issued[j] - server.issued[i] >= COINGECKO_REQUEST_DELAY

----------------------------------------------------------------------------
(* One WebSocket connection: its interval timers, its subscribe messages and
   its close event *)

Messages == {"m1", "m2", "m3"}
\* the timer firings explored
MaxUpdates == 2

\* setInterval: a new handle, active from now on
setInterval(s) ==
    [s EXCEPT !.timers = @ \cup {s.nextHandle},
              !.updateInterval = s.nextHandle,
              !.nextHandle = @ + 1]

\* clearInterval(updateInterval): no effect on a handle already cleared
clearInterval(s) == [s EXCEPT !.timers = @ \ {s.updateInterval}]

\* the connection handler has run: `let updateInterval = setInterval(...)`
InitSocket ==
    /\ socket = setInterval([timers |-> {}, updateInterval |-> 0, nextHandle |-> 1,
                             closed |-> FALSE, updates |-> 0,
                             subscribe |-> [m \in Messages |-> "idle"]])
    /\ server = <<>>
    /\ IdleComponent
    /\ IdleStrategy
    /\ IdleCall
    /\ IdleAnalysis

SocketStep(next) ==
    /\ socket' = next
    /\ UNCHANGED <<server, component, sgData, sgOutcome, call, ret, req, fetchLog>>

\* a subscribe message arrives: the handler clears the timer and calls
\* sendPriceUpdate.  With a fresh cache entry sendPriceUpdate returns without
\* waiting for anything and the handler sets the new timer before any other
\* event is handled; else the handler is suspended at the await
Subscribe(m, cached) ==
    /\ ~socket.closed
    /\ socket.subscribe[m] = "idle"
    /\ LET cleared == clearInterval(socket)
       IN  SocketStep(IF cached
                      THEN [setInterval(cleared) EXCEPT !.subscribe[m] = "done"]
                      ELSE [cleared EXCEPT !.subscribe[m] = "awaitSend"])

\* sendPriceUpdate settles (it catches its own errors): the handler resumes
\* and sets the new timer
SendSettles(m) ==
    /\ socket.subscribe[m] = "awaitSend"
    /\ SocketStep([setInterval(socket) EXCEPT !.subscribe[m] = "done"])

\* an active timer fires sendPriceUpdate
TimerFires(t) ==
    /\ t \in socket.timers
    /\ socket.updates < MaxUpdates
    /\ SocketStep([socket EXCEPT !.updates = @ + 1])

\* the close event is handled
Close ==
    /\ ~socket.closed
    /\ SocketStep([clearInterval(socket) EXCEPT !.closed = TRUE])

NextSocket ==
    \/ \E m \in Messages, cached \in BOOLEAN : Subscribe(m, cached)
    \/ \E m \in Messages : SendSettles(m)
    \/ \E t \in 1..(Cardinality(Messages) + 1) : TimerFires(t)
    \/ Close

SpecSocket == InitSocket /\ [][NextSocket]_vars

\* C29: a connection has at most one active price-update timer at any time,
\* and once its close event has been handled no timer is active -- also when
\* the close or a second subscribe arrives while a subscribe handler awaits
\* sendPriceUpdate.
C29_AtMostOneTimer ==
    /\ Cardinality(socket.timers) <= 1
    /\ socket.closed => socket.timers = {}

----------------------------------------------------------------------------
(* The MarketAnalysis component: its effect on [crypto, predictions] and the
   getDetailedAnalysis calls it leaves pending *)

Cryptos == {"bitcoin", "ethereum"}
Predictions == {"p1", "p2"}
\* the runs of the effect explored
MaxFetches == 3

\* what setAnalysis receives from the run of fetchAnalysis numbered f
mergedAnalysis(f, run) ==
    [from |-> f, summary |-> <<"result", run.crypto>>,
     externalPredictions |-> run.predictions]

unavailableAnalysis(f, run) ==
    [from |-> f, summary |-> <<"Market", "analysis", "unavailable">>,
     externalPredictions |-> run.predictions]

\* the effect runs fetchAnalysis up to its await: setLoading(true),
\* setError(null), getDetailedAnalysis(crypto) is called
fetchAnalysis(c, crypto, predictions) ==
    [c EXCEPT !.crypto = crypto, !.predictions = predictions,
              !.loading = TRUE, !.error = <<>>,
              !.runs = Append(@, [crypto |-> crypto, predictions |-> predictions,
                                  status |-> "pending"])]

\* the state after the first render and its effect
InitComponent ==
    /\ \E crypto \in Cryptos, predictions \in Predictions :
           component = fetchAnalysis(
               [crypto |-> crypto, predictions |-> predictions, analysis |-> <<>>,
                loading |-> TRUE, error |-> <<>>, runs |-> <<>>],
               crypto, predictions)
    /\ IdleServer
    /\ IdleStrategy
    /\ IdleCall
    /\ IdleAnalysis

ComponentStep(next) ==
    /\ component' = next
    /\ UNCHANGED <<server, socket, sgData, sgOutcome, call, ret, req, fetchLog>>

\* the parent passes another crypto or other predictions: the effect runs
\* again; it has no cleanup, the earlier call stays pending
PropsChange(crypto, predictions) ==
    /\ Len(component.runs) < MaxFetches
    /\ <<crypto, predictions>> # <<component.crypto, component.predictions>>
    /\ ComponentStep(fetchAnalysis(component, crypto, predictions))

\* the try block after the await, then finally
FetchResolves(f) ==
    /\ f \in 1..Len(component.runs)
    /\ component.runs[f].status = "pending"
    /\ ComponentStep([component EXCEPT
                         !.runs[f].status = "resolved",
                         !.analysis = <<mergedAnalysis(f, component.runs[f])>>,
                         !.loading = FALSE])

\* the catch block (the call rejected, or resolved to nothing), then finally
FetchFails(f) ==
    /\ f \in 1..Len(component.runs)
    /\ component.runs[f].status = "pending"
    /\ ComponentStep([component EXCEPT
                         !.runs[f].status = "failed",
                         !.error = <<"Failed to fetch market analysis">>,
                         !.analysis = <<unavailableAnalysis(f, component.runs[f])>>,
                         !.loading = FALSE])

NextComponent ==
    \/ \E crypto \in Cryptos, predictions \in Predictions : PropsChange(crypto, predictions)
    \/ \E f \in 1..MaxFetches : FetchResolves(f)
    \/ \E f \in 1..MaxFetches : FetchFails(f)

SpecComponent == InitComponent /\ [][NextComponent]_vars

LatestRun == Len(component.runs)
NonePending == \A f \in 1..Len(component.runs) : component.runs[f].status # "pending"

\* C30: when the selection changes while an earlier getDetailedAnalysis is
\* pending the earlier fetch is abandoned: once every pending call has
\* settled, in any order, the displayed analysis and the error are those of
\* the most recently started fetch, and loading is false only when the fetch
\* for the current selection is not pending.
C30_LatestFetchWins ==
    /\ NonePending =>
           /\ component.analysis # <<>>
           /\ component.analysis[1].from = LatestRun
           /\ (component.error # <<>>) = (component.runs[LatestRun].status = "failed")
    /\ ~component.loading => component.runs[LatestRun].status # "pending"

\* with a single run of the effect the component shows that run's outcome
SingleFetchShown ==
    (NonePending /\ LatestRun = 1) =>
        /\ component.analysis # <<>>
        /\ component.analysis[1].from = 1
        /\ (component.error # <<>>) = (component.runs[1].status = "failed")
        /\ ~component.loading

============================================================================
